---- MODULE Spec2Model ----
(***************************************************************************)
(* A model of the chess rules engine of chess-bot: the board               *)
(* (lib/gamelogic/board.rs), the move generator and legality filter        *)
(* (lib/gamelogic/pieces.rs) and the callers that apply one move per ply   *)
(* (lib/runners/local_game.rs).                                            *)
(*                                                                         *)
(* Rust values are modelled as follows.                                    *)
(*   Option<T>      None is <<>>, Some(x) is <<x>>                         *)
(*   (usize, usize) a square is the tuple <<column, row>>, 0-based         *)
(*   Vec<T>         a sequence, in the order the code pushes               *)
(*   a panic        (unwrap / expect on None, index out of range) is a     *)
(*                  predicate ...Panics beside the operator that computes  *)
(*                  the value; the value is only used where the predicate  *)
(*                  is false, and an action whose code panics sets         *)
(*                  aborted.                                               *)
(*   String         a sequence of characters, each a one-character string  *)
(*   Result<T, E>   Ok(x) and Err(e) are records with the field ok         *)
(***************************************************************************)
EXTENDS Integers, Sequences, FiniteSets, TLC

VARIABLES
    board,      \* the ChessBoard the caller owns
    aborted,    \* the program has panicked
    start,      \* which of AllBoards the board was created as
    fen_text,   \* the text last written by to_forsyth_edwards or given to
                \* from_forsyth_edwards; <<>> when there is none
    parsed,     \* what from_forsyth_edwards returned for it; None before the call
    calls       \* the calls a caller of the library made beside the plies of
                \* the game, each with its arguments and what it returned

vars == <<board, aborted, start, fen_text, parsed, calls>>

\* ------------------------------------------------------------------ bounds
\* plies applied to a board read from a text
MaxPly == 2

\* plies applied to the standard setup
MaxOpeningPly == 1

\* plies of the game in which the kings move back and forth
MaxShufflePly == 16

\* ------------------------------------------------------------------ values
None == <<>>

Some(x) == <<x>>

IsSome(o) == o # <<>>

IsNone(o) == o = <<>>

Unwrap(o) == o[1]

Not(side) == IF side = "White" THEN "Black" ELSE "White"

Piece(c, r, side, type) == [position |-> <<c, r>>, side |-> side, piece_type |-> type]

Move(from, dest, type, captures) ==
    [from_square |-> from, destination |-> dest, move_type |-> type, captures |-> captures]

Range(s) == {s[i] : i \in 1..Len(s)}

OnBoard(c, r) == c >= 0 /\ c <= 7 /\ r >= 0 /\ r <= 7

GetSquareByIndex(b, column, row) == b.squares[column][row]

GetSquareByPosition(b, position) == GetSquareByIndex(b, position[1], position[2])

\* the pieces of a side, columns outermost, as the nested loops visit them
GetAllPieces(b, side) ==
    LET cell(i) == b.squares[i \div 8][i % 8]
        one(i) == IF IsSome(cell(i)) /\ Unwrap(cell(i)).side = side
                  THEN <<Unwrap(cell(i))>> ELSE <<>>
        RECURSIVE from(_)
        from(i) == IF i > 63 THEN <<>> ELSE one(i) \o from(i + 1)
    IN  from(0)

\* ----------------------------------------------------------------- threats
\* The squares one loop of a sliding piece visits: from the piece outward in
\* direction (dc, dr), up to the edge or up to and including the first
\* occupied square.
RECURSIVE Walk(_, _, _, _, _)
Walk(b, c, r, dc, dr) ==
    IF ~OnBoard(c + dc, r + dr) THEN <<>>
    ELSE IF IsSome(GetSquareByIndex(b, c + dc, r + dr)) THEN << <<c + dc, r + dr>> >>
    ELSE << <<c + dc, r + dr>> >> \o Walk(b, c + dc, r + dr, dc, dr)

GetPawnThreats(piece, b) ==
    LET current_col == piece.position[1]
        current_row == piece.position[2]
        fwd == IF piece.side = "White" THEN current_row + 1 ELSE current_row - 1
    IN  IF current_row % 7 = 0 THEN <<>>
        ELSE (IF current_col > 0 THEN << <<current_col - 1, fwd>> >> ELSE <<>>)
             \o (IF current_col < 7 THEN << <<current_col + 1, fwd>> >> ELSE <<>>)

GetRookThreats(piece, b) ==
    LET c == piece.position[1]
        r == piece.position[2]
    IN  Walk(b, c, r, -1, 0) \o Walk(b, c, r, 1, 0) \o Walk(b, c, r, 0, -1) \o Walk(b, c, r, 0, 1)

GetBishopThreats(piece, b) ==
    LET c == piece.position[1]
        r == piece.position[2]
    IN  Walk(b, c, r, -1, 1) \o Walk(b, c, r, 1, 1) \o Walk(b, c, r, -1, -1) \o Walk(b, c, r, 1, -1)

GetQueenThreats(piece, b) == GetBishopThreats(piece, b) \o GetRookThreats(piece, b)

\* the eight knight offsets in the order of the code's four blocks
KnightOffsets ==
    << <<-2, 1>>, <<-2, -1>>, <<2, 1>>, <<2, -1>>, <<-1, 2>>, <<1, 2>>, <<-1, -2>>, <<1, -2>> >>

GetKnightThreats(piece, b) ==
    LET c == piece.position[1]
        r == piece.position[2]
        one(o) == IF OnBoard(c + o[1], r + o[2]) THEN << <<c + o[1], r + o[2]>> >> ELSE <<>>
        RECURSIVE from(_)
        from(i) == IF i > 8 THEN <<>> ELSE one(KnightOffsets[i]) \o from(i + 1)
    IN  from(1)

\* col_shift outermost, row_shift innermost, the centre skipped
KingShifts ==
    << <<-1, -1>>, <<-1, 0>>, <<-1, 1>>, <<0, -1>>, <<0, 1>>, <<1, -1>>, <<1, 0>>, <<1, 1>> >>

GetKingThreats(piece, b) ==
    LET c == piece.position[1]
        r == piece.position[2]
        one(o) == IF OnBoard(c + o[1], r + o[2]) THEN << <<c + o[1], r + o[2]>> >> ELSE <<>>
        RECURSIVE from(_)
        from(i) == IF i > 8 THEN <<>> ELSE one(KingShifts[i]) \o from(i + 1)
    IN  from(1)

GetThreats(piece, b) ==
    CASE piece.piece_type = "Pawn"   -> GetPawnThreats(piece, b)
      [] piece.piece_type = "Rook"   -> GetRookThreats(piece, b)
      [] piece.piece_type = "Knight" -> GetKnightThreats(piece, b)
      [] piece.piece_type = "Bishop" -> GetBishopThreats(piece, b)
      [] piece.piece_type = "Queen"  -> GetQueenThreats(piece, b)
      [] piece.piece_type = "King"   -> GetKingThreats(piece, b)

GetThreatened(b, side) ==
    LET ps == GetAllPieces(b, side)
        RECURSIVE from(_)
        from(i) == IF i > Len(ps) THEN <<>> ELSE GetThreats(ps[i], b) \o from(i + 1)
    IN  from(1)

GetThreatenedMap(b, side) == Range(GetThreatened(b, side))

IsSquareThreatened(b, side, square) == square \in GetThreatenedMap(b, side)

\* the kings of a side, in the order find_map meets them
Kings(b, side) == SelectSeq(GetAllPieces(b, side), LAMBDA p : p.piece_type = "King")

\* is_checked unwraps the king it looks for
IsCheckedPanics(b, side) == Kings(b, side) = <<>>

IsChecked(b, side) == IsSquareThreatened(b, Not(side), Kings(b, side)[1].position)

\* ------------------------------------------------------------ perform_move
\* perform_move panics when the origin square is empty, when an EnPassant
\* move finds no piece on the square behind its destination, and when the
\* rook move a Castle recurses into finds its origin square empty.
RECURSIVE PerformMovePanics(_, _)
PerformMovePanics(b, chess_move) ==
    LET current_position == chess_move.from_square
        dest_col == chess_move.destination[1]
        dest_row == chess_move.destination[2]
        origin == GetSquareByIndex(b, current_position[1], current_position[2])
        behind == IF Unwrap(origin).side = "White" THEN dest_row - 1 ELSE dest_row + 1
        castle_move == Move(<<IF dest_col = 1 THEN 0 ELSE 7, dest_row>>,
                            <<IF dest_col = 1 THEN 2 ELSE 5, dest_row>>, "Standard", None)
    IN  IF IsNone(origin) THEN TRUE
        ELSE IF chess_move.move_type = "EnPassant"
             THEN IF OnBoard(dest_col, behind)
                  THEN IsNone(GetSquareByIndex(b, dest_col, behind))
                  ELSE TRUE
        ELSE IF chess_move.move_type = "Castle"
             THEN PerformMovePanics(b, castle_move)
        ELSE FALSE

\* The arms of perform_move, each beside the same arm with its effect left
\* out (...Kept, PromoteStaysPawn), which the properties below must tell apart.
\* every arm but DoubleAdvance forgets the en passant column
ForgetEnPassantKept(b) == b

ForgetEnPassant(b) == [b EXCEPT !.state.en_passant_column = None]

\* the EnPassant arm empties the square of the captured pawn
RemoveCapturedKept(b, captured) == b

RemoveCaptured(b, captured) ==
    [b EXCEPT !.squares[captured.position[1]][captured.position[2]] = None]

\* the Promotion arm turns the moving piece into a queen
PromoteStaysPawn(piece, kind) == piece

Promote(piece, kind) ==
    IF kind = "Promotion" THEN [piece EXCEPT !.piece_type = "Queen"] ELSE piece

\* a rook leaving a corner square gives up that wing
RookFlags(b, piece, current_position) ==
    IF piece.piece_type # "Rook" THEN b
    ELSE CASE current_position = <<0, 0>> -> [b EXCEPT !.state.white_castle_queenside = FALSE]
           [] current_position = <<7, 0>> -> [b EXCEPT !.state.white_castle_kingside = FALSE]
           [] current_position = <<0, 7>> -> [b EXCEPT !.state.black_castle_queenside = FALSE]
           [] current_position = <<7, 7>> -> [b EXCEPT !.state.black_castle_kingside = FALSE]
           [] OTHER -> b

\* a king that moves gives up both wings
KingFlagsKept(b, piece) == b

KingFlags(b, piece) ==
    IF piece.piece_type # "King" THEN b
    ELSE IF piece.side = "White"
         THEN [b EXCEPT !.state.white_castle_kingside = FALSE,
                        !.state.white_castle_queenside = FALSE]
         ELSE [b EXCEPT !.state.black_castle_kingside = FALSE,
                        !.state.black_castle_queenside = FALSE]

\* the moving piece takes the destination as its position
RelocatedKeepsPosition(piece, destination) == piece

Relocated(piece, destination) == [piece EXCEPT !.position = destination]

RECURSIVE PerformMove(_, _)
PerformMove(b, chess_move) ==
    LET current_position == chess_move.from_square
        piece == Unwrap(GetSquareByIndex(b, current_position[1], current_position[2]))
        dest_col == chess_move.destination[1]
        dest_row == chess_move.destination[2]
        kind == chess_move.move_type
        \* handle special moves
        captured == Unwrap(GetSquareByIndex(b, dest_col,
                        IF piece.side = "White" THEN dest_row - 1 ELSE dest_row + 1))
        castle_move == Move(<<IF dest_col = 1 THEN 0 ELSE 7, dest_row>>,
                            <<IF dest_col = 1 THEN 2 ELSE 5, dest_row>>, "Standard", None)
        cleared == ForgetEnPassant(b)
        b1 == CASE kind = "EnPassant" -> ForgetEnPassant(RemoveCaptured(b, captured))
                [] kind = "DoubleAdvance" ->
                     [b EXCEPT !.state.en_passant_column = Some(dest_col)]
                [] kind = "Promotion" -> cleared
                [] kind = "Castle" -> PerformMove(cleared, castle_move)
                [] OTHER -> cleared
        piece1 == Promote(piece, kind)
        b2 == RookFlags(b1, piece1, current_position)
        b3 == KingFlags(b2, piece1)
        \* move piece from current position to destination
        piece2 == Relocated(piece1, chess_move.destination)
    IN  [b3 EXCEPT !.squares[current_position[1]][current_position[2]] = None,
                   !.squares[dest_col][dest_row] = Some(piece2)]

\* ------------------------------------------------------------ legality filter
MoveWouldCauseSelfCheckPanics(b, the_move) ==
    IF PerformMovePanics(b, the_move) THEN TRUE
    ELSE IsCheckedPanics(PerformMove(b, the_move),
                         Unwrap(GetSquareByPosition(b, the_move.from_square)).side)

\* a filter that lets every move pass
MoveWouldCauseSelfCheckNever(b, the_move) == FALSE

MoveWouldCauseSelfCheck(b, the_move) ==
    IsChecked(PerformMove(b, the_move),
              Unwrap(GetSquareByPosition(b, the_move.from_square)).side)

\* ------------------------------------------------------------ move generation
\* A pawn reads the square ahead of it: on its far row that index is off the
\* board (row 8, or 0 - 1 in usize).
GetPawnMovesPanics(piece, b) ==
    ~OnBoard(piece.position[1],
             IF piece.side = "White" THEN piece.position[2] + 1 ELSE piece.position[2] - 1)

\* the test of the double move with its second square left out
FirstSquareAheadFree(b, current_col, ahead, dir) ==
    IsNone(GetSquareByIndex(b, current_col, ahead))

\* both the squares ahead are not occupied
BothSquaresAheadFree(b, current_col, ahead, dir) ==
    /\ IsNone(GetSquareByIndex(b, current_col, ahead))
    /\ IsNone(GetSquareByIndex(b, current_col, ahead + dir))

\* The White and the Black branch are the same code with the direction, the
\* starting row, the far row and the en passant row exchanged.
GetPawnMoves(piece, b) ==
    LET current_col == piece.position[1]
        current_row == piece.position[2]
        white == piece.side = "White"
        dir == IF white THEN 1 ELSE -1
        start_row == IF white THEN 1 ELSE 6
        far_row == IF white THEN 7 ELSE 0
        passant_row == IF white THEN 4 ELSE 3
        from == <<current_col, current_row>>
        ahead == current_row + dir
        kind_at(row) == IF row = far_row THEN "Promotion" ELSE "Standard"
        enemy_at(c, r) == /\ IsSome(GetSquareByIndex(b, c, r))
                          /\ Unwrap(GetSquareByIndex(b, c, r)).side # piece.side
        ep == b.state.en_passant_column
        \* double move only if on starting rank and both squares ahead are free
        double == IF /\ current_row = start_row
                     /\ BothSquaresAheadFree(b, current_col, ahead, dir)
                  THEN <<Move(from, <<current_col, ahead + dir>>, "DoubleAdvance", None)>>
                  ELSE <<>>
        single == IF IsNone(GetSquareByIndex(b, current_col, ahead))
                  THEN <<Move(from, <<current_col, ahead>>, kind_at(ahead), None)>>
                  ELSE <<>>
        capture(c) == IF c >= 0 /\ c <= 7 /\ enemy_at(c, ahead)
                      THEN <<Move(from, <<c, ahead>>, kind_at(ahead), Some(<<c, ahead>>))>>
                      ELSE <<>>
        passant == IF /\ IsSome(ep)
                      /\ current_row = passant_row
                      /\ (current_col - Unwrap(ep) = 1 \/ Unwrap(ep) - current_col = 1)
                   THEN <<Move(from, <<Unwrap(ep), ahead>>, "EnPassant",
                               Some(<<Unwrap(ep), ahead - dir>>))>>
                   ELSE <<>>
    IN  double \o single \o capture(current_col - 1) \o capture(current_col + 1) \o passant

\* One loop of a sliding piece: every free square of the walk is a move, the
\* occupied square that ends it is a capture when it holds the other side.
SlideMoves(piece, b, dc, dr) ==
    LET w == Walk(b, piece.position[1], piece.position[2], dc, dr)
        one(sq) == IF IsNone(GetSquareByPosition(b, sq))
                   THEN <<Move(piece.position, sq, "Standard", None)>>
                   ELSE IF Unwrap(GetSquareByPosition(b, sq)).side # piece.side
                        THEN <<Move(piece.position, sq, "Standard", Some(sq))>>
                        ELSE <<>>
        RECURSIVE from(_)
        from(i) == IF i > Len(w) THEN <<>> ELSE one(w[i]) \o from(i + 1)
    IN  from(1)

GetRookMoves(piece, b) ==
    SlideMoves(piece, b, -1, 0) \o SlideMoves(piece, b, 1, 0)
        \o SlideMoves(piece, b, 0, -1) \o SlideMoves(piece, b, 0, 1)

GetBishopMoves(piece, b) ==
    SlideMoves(piece, b, -1, 1) \o SlideMoves(piece, b, 1, 1)
        \o SlideMoves(piece, b, -1, -1) \o SlideMoves(piece, b, 1, -1)

GetQueenMoves(piece, b) == GetBishopMoves(piece, b) \o GetRookMoves(piece, b)

\* a step to a square that is free or held by the other side
StepMoves(piece, b, offsets) ==
    LET c == piece.position[1]
        r == piece.position[2]
        target(o) == GetSquareByIndex(b, c + o[1], r + o[2])
        one(o) == IF /\ OnBoard(c + o[1], r + o[2])
                     /\ (IsNone(target(o)) \/ Unwrap(target(o)).side # piece.side)
                  THEN <<Move(piece.position, <<c + o[1], r + o[2]>>, "Standard",
                              IF IsNone(target(o)) THEN None
                              ELSE Some(Unwrap(target(o)).position))>>
                  ELSE <<>>
        RECURSIVE from(_)
        from(i) == IF i > Len(offsets) THEN <<>> ELSE one(offsets[i]) \o from(i + 1)
    IN  from(1)

GetKnightMoves(piece, b) == StepMoves(piece, b, KnightOffsets)

\* The castling flags of a side. get_king_moves reads them under the names
\* *_king_moved / *_queen_rook_moved / *_king_rook_moved; BoardStateFlags
\* keeps one flag per wing, cleared when the king or that wing's rook moves.
CastleQueenside(b, side) ==
    IF side = "White" THEN b.state.white_castle_queenside ELSE b.state.black_castle_queenside

CastleKingside(b, side) ==
    IF side = "White" THEN b.state.white_castle_kingside ELSE b.state.black_castle_kingside

\* the loop without its test of the king jumped to the column
CastlePathEmpty(piece, b, cols) ==
    \A col \in cols : IsNone(GetSquareByIndex(b, col, piece.position[2]))

\* The loop over the columns the king crosses: each is free, and the king
\* jumped there (a Standard move on a copy of the board) is not in check.
CastlePathClear(piece, b, cols) ==
    \A col \in cols :
        /\ IsNone(GetSquareByIndex(b, col, piece.position[2]))
        /\ ~MoveWouldCauseSelfCheck(b, Move(piece.position, <<col, piece.position[2]>>,
                                            "Standard", None))

\* the piece on column 1 of the king's row is a rook of the king's side
RookOnColumnOne(piece, b) ==
    LET rook_piece == Unwrap(GetSquareByIndex(b, 1, piece.position[2]))
    IN  piece.side = rook_piece.side /\ rook_piece.piece_type = "Rook"

QueensideCanCastle(piece, b) ==
    LET can_castle == CastlePathClear(piece, b, 1..(piece.position[1] - 1))
    IN  IF can_castle /\ IsSome(GetSquareByIndex(b, 1, piece.position[2]))
        THEN RookOnColumnOne(piece, b)
        ELSE can_castle

\* The kingside block looks for a piece on column 7 and then unwraps the
\* square on column 1.
KingsideCanCastlePanics(piece, b) ==
    /\ CastlePathClear(piece, b, (piece.position[1] + 1)..6)
    /\ IsSome(GetSquareByIndex(b, 7, piece.position[2]))
    /\ IsNone(GetSquareByIndex(b, 1, piece.position[2]))

KingsideCanCastle(piece, b) ==
    LET can_castle == CastlePathClear(piece, b, (piece.position[1] + 1)..6)
    IN  IF can_castle /\ IsSome(GetSquareByIndex(b, 7, piece.position[2]))
        THEN RookOnColumnOne(piece, b)
        ELSE can_castle

GetKingMovesPanics(piece, b) ==
    IF IsCheckedPanics(b, piece.side) THEN TRUE
    ELSE IF ~IsChecked(b, piece.side) /\ CastleKingside(b, piece.side)
         THEN KingsideCanCastlePanics(piece, b)
         ELSE FALSE

GetKingMoves(piece, b) ==
    LET current_row == piece.position[2]
        queenside == IF CastleQueenside(b, piece.side) /\ QueensideCanCastle(piece, b)
                     THEN <<Move(piece.position, <<1, current_row>>, "Castle", None)>>
                     ELSE <<>>
        kingside == IF CastleKingside(b, piece.side) /\ KingsideCanCastle(piece, b)
                    THEN <<Move(piece.position, <<6, current_row>>, "Castle", None)>>
                    ELSE <<>>
    IN  StepMoves(piece, b, KingShifts)
            \o (IF (CastleQueenside(b, piece.side) \/ CastleKingside(b, piece.side))
                   /\ ~IsChecked(b, piece.side)
                THEN queenside \o kingside ELSE <<>>)

UnfilteredMovesPanics(piece, b) ==
    CASE piece.piece_type = "Pawn" -> GetPawnMovesPanics(piece, b)
      [] piece.piece_type = "King" -> GetKingMovesPanics(piece, b)
      [] OTHER -> FALSE

UnfilteredMoves(piece, b) ==
    CASE piece.piece_type = "Pawn"   -> GetPawnMoves(piece, b)
      [] piece.piece_type = "Rook"   -> GetRookMoves(piece, b)
      [] piece.piece_type = "Knight" -> GetKnightMoves(piece, b)
      [] piece.piece_type = "Bishop" -> GetBishopMoves(piece, b)
      [] piece.piece_type = "Queen"  -> GetQueenMoves(piece, b)
      [] piece.piece_type = "King"   -> GetKingMoves(piece, b)

GetMovesPanics(piece, b) ==
    IF UnfilteredMovesPanics(piece, b) THEN TRUE
    ELSE \E m \in Range(UnfilteredMoves(piece, b)) : MoveWouldCauseSelfCheckPanics(b, m)

\* get_moves without its filter
GetMovesUnfiltered(piece, b) == UnfilteredMoves(piece, b)

\* every move the piece could make, less those that leave its own king in check
GetMoves(piece, b) ==
    SelectSeq(UnfilteredMoves(piece, b), LAMBDA m : ~MoveWouldCauseSelfCheck(b, m))

\* Result<ChessMove, ChessError>
Ok(m) == [ok |-> TRUE, value |-> m]

Err(e) == [ok |-> FALSE, error |-> e]

\* the first valid move to the desired square; index_pair_to_name refuses a
\* square off the board while the error message is written
GetSpecificMove(piece, b, desired_move) ==
    LET valid_moves == GetMoves(piece, b)
        found == SelectSeq(valid_moves, LAMBDA m : m.destination = desired_move)
    IN  IF found # <<>> THEN Ok(found[1])
        ELSE IF desired_move[1] > 7 \/ desired_move[2] > 7 THEN Err("InvalidArgument")
        ELSE Err("InvalidMove")

GetAllMovesPanics(b, side) ==
    \E p \in Range(GetAllPieces(b, side)) : GetMovesPanics(p, b)

GetAllMoves(b, side) ==
    LET ps == GetAllPieces(b, side)
        RECURSIVE from(_)
        from(i) == IF i > Len(ps) THEN <<>> ELSE GetMoves(ps[i], b) \o from(i + 1)
    IN  from(1)

\* ------------------------------------------------------------ recording
\* What Display writes for one square: the glyph of the piece (its side and
\* kind) or of the empty square, on a background that tells which sides
\* threaten the square.
Cell(b, white_threat_map, black_threat_map, col_indx, row_indx) ==
    LET sq == GetSquareByIndex(b, col_indx, row_indx)
        glyph == IF IsSome(sq) THEN <<Unwrap(sq).side, Unwrap(sq).piece_type>> ELSE <<>>
        white_threat == <<col_indx, row_indx>> \in white_threat_map
        black_threat == <<col_indx, row_indx>> \in black_threat_map
    IN  <<glyph, IF white_threat /\ black_threat THEN "on_green"
                 ELSE IF white_threat THEN "on_white"
                 ELSE IF black_threat THEN "on_blue"
                 ELSE "plain">>

\* The text Display writes, less the row and column labels that are the same
\* for every board: the cells of row 8 first, columns a to h within a row.
RECURSIVE Cells(_, _, _, _)
Cells(b, white_threat_map, black_threat_map, i) ==
    IF i > 64 THEN <<>>
    ELSE <<Cell(b, white_threat_map, black_threat_map, (i - 1) % 8, 7 - ((i - 1) \div 8))>>
         \o Cells(b, white_threat_map, black_threat_map, i + 1)

Display(b) == Cells(b, GetThreatenedMap(b, "White"), GetThreatenedMap(b, "Black"), 1)

\* The hash of the text Display writes. DefaultHasher is taken to be
\* injective on those texts: the text itself stands for its hash.
GetBoardStateHash(b) == Display(b)

\* record_board_state that leaves the counters as they are
RecordBoardStateSkipped(b) == b

RecordBoardState(b) ==
    LET new_state_hash == GetBoardStateHash(b)
        counts == b.board_state_counts
        state_seen_count == IF new_state_hash \in DOMAIN counts
                            THEN counts[new_state_hash] ELSE 0
    IN  [b EXCEPT !.board_state_counts = (new_state_hash :> state_seen_count + 1) @@ counts]

PerformMoveAndRecordPanics(b, chess_move) ==
    IF IsNone(GetSquareByPosition(b, chess_move.from_square)) THEN TRUE
    ELSE PerformMovePanics(b, chess_move)

\* perform_move_and_record without its first line
PerformMoveAndRecordKeepsTurn(b, chess_move) ==
    LET recorded == RecordBoardState(PerformMove(b, chess_move))
    IN  [recorded EXCEPT !.move_list = Append(@, chess_move)]

PerformMoveAndRecord(b, chess_move) ==
    LET mover == Unwrap(GetSquareByPosition(b, chess_move.from_square)).side
        turned == [b EXCEPT !.state.current_turn = Not(mover)]
        recorded == RecordBoardState(PerformMove(turned, chess_move))
    IN  [recorded EXCEPT !.move_list = Append(@, chess_move)]

\* ------------------------------------------------------------ end of game
GetMaterial(piece) ==
    CASE piece.piece_type = "Pawn" -> 1
      [] piece.piece_type = "Rook" -> 5
      [] piece.piece_type = "Knight" -> 3
      [] piece.piece_type = "Bishop" -> 3
      [] piece.piece_type = "Queen" -> 9
      [] piece.piece_type = "King" -> 42

WhiteVictory(reason) == [outcome |-> "WhiteVictory", reason |-> reason]

BlackVictory(reason) == [outcome |-> "BlackVictory", reason |-> reason]

Draw(reason) == [outcome |-> "Draw", reason |-> reason]

\* the pieces of a list that are not kings, in the order of the list
NonKings(pieces) == SelectSeq(pieces, LAMBDA p : p.piece_type # "King")

\* the first match of is_game_over for a side that has no moves, where every
\* side that has no moves gets a draw
NoMovesEndAlwaysDraw(is_checked, current_turn) ==
    Some(Draw(IF current_turn = "White" THEN "White has no valid moves"
              ELSE "Black has no valid moves"))

\* the first match of is_game_over for a side that has no moves, where every
\* side that has no moves has lost
NoMovesEndAlwaysMate(is_checked, current_turn) ==
    Some(IF current_turn = "White" THEN BlackVictory("Checkmate")
         ELSE WhiteVictory("Checkmate"))

\* what is_game_over returns for a side that has no moves
NoMovesEnd(is_checked, current_turn) ==
    IF is_checked
    THEN Some(IF current_turn = "White" THEN BlackVictory("Checkmate")
              ELSE WhiteVictory("Checkmate"))
    ELSE Some(Draw(IF current_turn = "White" THEN "White has no valid moves"
                   ELSE "Black has no valid moves"))

\* find(|p| p.piece_type != King).unwrap() of the material rules finds nothing
InsufficientMaterialPanics(b) ==
    LET white_pieces == GetAllPieces(b, "White")
        black_pieces == GetAllPieces(b, "Black")
    IN  IF Len(white_pieces) = 1 /\ Len(black_pieces) = 1 THEN FALSE
        ELSE IF Len(white_pieces) = 1
             THEN Len(black_pieces) = 2 /\ NonKings(black_pieces) = <<>>
        ELSE IF Len(black_pieces) = 1
             THEN Len(white_pieces) = 2 /\ NonKings(white_pieces) = <<>>
        ELSE /\ Len(white_pieces) = 2
             /\ Len(black_pieces) = 2
             /\ \/ NonKings(white_pieces) = <<>>
                \/ /\ GetMaterial(NonKings(white_pieces)[1]) = 3
                   /\ NonKings(black_pieces) = <<>>

\* The material rules of is_game_over: the draw they return, or None when
\* control falls through to the repetition rule.
InsufficientMaterial(b) ==
    LET white_pieces == GetAllPieces(b, "White")
        black_pieces == GetAllPieces(b, "Black")
        Minor(pieces) == GetMaterial(NonKings(pieces)[1]) = 3
        TwoKnights(pieces) ==
            Len(SelectSeq(NonKings(pieces), LAMBDA p : p.piece_type = "Knight")) >= 2
    IN  IF Len(white_pieces) = 1 /\ Len(black_pieces) = 1
        THEN Some(Draw("Stalemate"))
        ELSE IF Len(white_pieces) = 1
        THEN IF Len(black_pieces) = 2 /\ Minor(black_pieces)
             THEN Some(Draw("Insufficient material"))
             ELSE IF Len(black_pieces) = 3 /\ TwoKnights(black_pieces)
             THEN Some(Draw("Insufficient material"))
             ELSE None
        ELSE IF Len(black_pieces) = 1
        THEN IF Len(white_pieces) = 2 /\ Minor(white_pieces)
             THEN Some(Draw("Insufficient material"))
             ELSE IF Len(white_pieces) = 3 /\ TwoKnights(white_pieces)
             THEN Some(Draw("Insufficient material"))
             ELSE None
        ELSE IF /\ Len(white_pieces) = 2
                /\ Len(black_pieces) = 2
                /\ Minor(white_pieces)
                /\ Minor(black_pieces)
        THEN Some(Draw("Insufficient material"))
        ELSE None

\* the repetition rule with no threshold: never a draw
RepetitionNever(b) == None

\* the repetition rule of is_game_over
Repetition(b) ==
    IF \E k \in DOMAIN b.board_state_counts : b.board_state_counts[k] = 3
    THEN Some(Draw("Draw by repetition"))
    ELSE None

IsGameOverPanics(b, current_turn) ==
    IF IsCheckedPanics(b, current_turn) THEN TRUE
    ELSE IF GetAllMovesPanics(b, current_turn) THEN TRUE
    ELSE IF GetAllMoves(b, current_turn) = <<>> THEN FALSE
    ELSE InsufficientMaterialPanics(b)

IsGameOver(b, current_turn) ==
    LET is_checked == IsChecked(b, current_turn)
        has_no_moves == GetAllMoves(b, current_turn) = <<>>
    IN  IF has_no_moves THEN NoMovesEnd(is_checked, current_turn)
        ELSE IF IsSome(InsufficientMaterial(b)) THEN InsufficientMaterial(b)
        ELSE Repetition(b)

\* ------------------------------------------------------------ construction
EmptySquares == [c \in 0..7 |-> [r \in 0..7 |-> None]]

\* the squares with the given pieces put on the squares their position names
RECURSIVE Place(_, _)
Place(squares, pieces) ==
    IF pieces = <<>> THEN squares
    ELSE Place([squares EXCEPT ![Head(pieces).position[1]][Head(pieces).position[2]] =
                    Some(Head(pieces))],
               Tail(pieces))

\* the main pieces with king and queen exchanged
BackRowKingOnQueensColumn ==
    <<"Rook", "Knight", "Bishop", "King", "Queen", "Bishop", "Knight", "Rook">>

BackRow == <<"Rook", "Knight", "Bishop", "Queen", "King", "Bishop", "Knight", "Rook">>

DefaultBoardStateFlags ==
    [white_castle_queenside |-> TRUE, white_castle_kingside |-> TRUE,
     black_castle_queenside |-> TRUE, black_castle_kingside |-> TRUE,
     en_passant_column |-> None, current_turn |-> "White"]

NewBoard ==
    [squares |-> Place(EmptySquares,
                       [i \in 1..8 |-> Piece(i - 1, 0, "White", BackRow[i])]
                       \o [i \in 1..8 |-> Piece(i - 1, 7, "Black", BackRow[i])]
                       \o [i \in 1..8 |-> Piece(i - 1, 1, "White", "Pawn")]
                       \o [i \in 1..8 |-> Piece(i - 1, 6, "Black", "Pawn")]),
     state |-> DefaultBoardStateFlags,
     board_state_counts |-> <<>>,
     move_list |-> <<>>]

\* The board from_forsyth_edwards returns for a well-formed text: the pieces
\* of the placement field on otherwise empty squares, the side to move, the
\* castling rights named in the third field (the letters of K, Q, k, q it
\* holds) and the column of the en passant square.
ParsedBoard(pieces, active_side, castling_rights, en_passant) ==
    [squares |-> Place(EmptySquares, pieces),
     state |-> [white_castle_queenside |-> "Q" \in castling_rights,
                white_castle_kingside |-> "K" \in castling_rights,
                black_castle_queenside |-> "q" \in castling_rights,
                black_castle_kingside |-> "k" \in castling_rights,
                en_passant_column |-> en_passant,
                current_turn |-> active_side],
     board_state_counts |-> <<>>,
     move_list |-> <<>>]

\* 6k1/5r2/8/8/8/4N3/8/R3K2R <side> KQ - 0 0
CastlePieces ==
    <<Piece(6, 7, "Black", "King"), Piece(5, 6, "Black", "Rook"),
      Piece(4, 2, "White", "Knight"), Piece(0, 0, "White", "Rook"),
      Piece(4, 0, "White", "King"), Piece(7, 0, "White", "Rook")>>

\* r3k3/r7/1N6/8/8/8/7P/6K1 w q - 0 0
CornerCapturePieces ==
    <<Piece(0, 7, "Black", "Rook"), Piece(4, 7, "Black", "King"),
      Piece(0, 6, "Black", "Rook"), Piece(1, 5, "White", "Knight"),
      Piece(7, 1, "White", "Pawn"), Piece(6, 0, "White", "King")>>

\* 1r2k3/7R/1p1p4/2pPn2p/p1P2p2/P1P5/2KN1P2/8 b k - 0 0
\* (tests/castling_logic.rs, fen_string_black_cannot_castle_h8_missing_rook)
MissingRookPieces ==
    <<Piece(1, 7, "Black", "Rook"), Piece(4, 7, "Black", "King"),
      Piece(7, 6, "White", "Rook"),
      Piece(1, 5, "Black", "Pawn"), Piece(3, 5, "Black", "Pawn"),
      Piece(2, 4, "Black", "Pawn"), Piece(3, 4, "White", "Pawn"),
      Piece(4, 4, "Black", "Knight"), Piece(7, 4, "Black", "Pawn"),
      Piece(0, 3, "Black", "Pawn"), Piece(2, 3, "White", "Pawn"),
      Piece(5, 3, "Black", "Pawn"),
      Piece(0, 2, "White", "Pawn"), Piece(2, 2, "White", "Pawn"),
      Piece(2, 1, "White", "King"), Piece(3, 1, "White", "Knight"),
      Piece(5, 1, "White", "Pawn")>>

\* 1n4k1/P2p1p2/8/4P3/2p5/8/pP6/6K1 <side> - - 0 0
PawnPieces ==
    <<Piece(1, 7, "Black", "Knight"), Piece(6, 7, "Black", "King"),
      Piece(0, 6, "White", "Pawn"), Piece(3, 6, "Black", "Pawn"),
      Piece(5, 6, "Black", "Pawn"), Piece(4, 4, "White", "Pawn"),
      Piece(2, 3, "Black", "Pawn"), Piece(0, 1, "Black", "Pawn"),
      Piece(1, 1, "White", "Pawn"), Piece(6, 0, "White", "King")>>

\* The boards a game is started from: ChessBoard::new() and boards read
\* with from_forsyth_edwards.
StartBoards ==
    <<NewBoard,
      ParsedBoard(CastlePieces, "White", {"K", "Q"}, None),
      ParsedBoard(CastlePieces, "Black", {"K", "Q"}, None),
      ParsedBoard(CornerCapturePieces, "White", {"q"}, None),
      ParsedBoard(MissingRookPieces, "Black", {"k"}, None),
      ParsedBoard(PawnPieces, "White", {}, None),
      ParsedBoard(PawnPieces, "Black", {}, None)>>

\* kn6/8/1K6/3N4/8/8/8/8 w - - 0 0
KnightMatePieces ==
    <<Piece(0, 7, "Black", "King"), Piece(1, 7, "Black", "Knight"),
      Piece(1, 5, "White", "King"), Piece(3, 4, "White", "Knight")>>

\* k7/8/K7/8/3B4/8/8/8 w - - 0 0
BishopStalematePieces ==
    <<Piece(0, 7, "Black", "King"), Piece(0, 5, "White", "King"),
      Piece(3, 3, "White", "Bishop")>>

\* 8/8/8/3b4/8/k7/8/K7 b - - 0 0
BishopStalemateWhitePieces ==
    <<Piece(3, 4, "Black", "Bishop"), Piece(0, 2, "Black", "King"),
      Piece(0, 0, "White", "King")>>

\* 7r/8/8/8/8/1k6/8/K7 b - - 0 0
RookMatePieces ==
    <<Piece(7, 7, "Black", "Rook"), Piece(1, 2, "Black", "King"),
      Piece(0, 0, "White", "King")>>

\* k7/8/8/8/8/8/8/K7 w - - 0 0
BareKingsPieces ==
    <<Piece(0, 7, "Black", "King"), Piece(0, 0, "White", "King")>>

\* k7/8/8/8/8/8/8/KNN5 w - - 0 0
TwoKnightsPieces ==
    <<Piece(0, 7, "Black", "King"), Piece(0, 0, "White", "King"),
      Piece(1, 0, "White", "Knight"), Piece(2, 0, "White", "Knight")>>

\* kbn5/8/8/8/8/8/8/K7 b - - 0 0
BishopAndKnightPieces ==
    <<Piece(0, 7, "Black", "King"), Piece(1, 7, "Black", "Bishop"),
      Piece(2, 7, "Black", "Knight"), Piece(0, 0, "White", "King")>>

\* Boards with few pieces, read with from_forsyth_edwards, on which games
\* end.
EndgameBoards ==
    <<ParsedBoard(KnightMatePieces, "White", {}, None),
      ParsedBoard(BishopStalematePieces, "White", {}, None),
      ParsedBoard(BishopStalemateWhitePieces, "Black", {}, None),
      ParsedBoard(RookMatePieces, "Black", {}, None),
      ParsedBoard(BareKingsPieces, "White", {}, None),
      ParsedBoard(TwoKnightsPieces, "White", {}, None),
      ParsedBoard(BishopAndKnightPieces, "Black", {}, None)>>

\* 7k/8/8/p7/P7/8/8/7K w - - 0 0
ShufflePieces ==
    <<Piece(7, 7, "Black", "King"), Piece(0, 4, "Black", "Pawn"),
      Piece(0, 3, "White", "Pawn"), Piece(7, 0, "White", "King")>>

ShuffleBoard == ParsedBoard(ShufflePieces, "White", {}, None)

\* the squares the kings of ShuffleBoard are moved between: g1 h1, g8 h8 h7
ShuffleSquares == {<<6, 0>>, <<7, 0>>, <<6, 7>>, <<7, 7>>, <<7, 6>>}

AllBoards == StartBoards \o EndgameBoards \o <<ShuffleBoard>>

\* plies applied to a board: MaxOpeningPly to the standard setup, MaxPly to
\* the others
PlyBound == IF AllBoards[start] = NewBoard THEN MaxOpeningPly ELSE MaxPly

\* ------------------------------------------------------------ position text
Digits == <<"0", "1", "2", "3", "4", "5", "6", "7", "8", "9">>

LowerCase ==
    <<"a", "b", "c", "d", "e", "f", "g", "h", "i", "j", "k", "l", "m",
      "n", "o", "p", "q", "r", "s", "t", "u", "v", "w", "x", "y", "z">>

UpperCase ==
    <<"A", "B", "C", "D", "E", "F", "G", "H", "I", "J", "K", "L", "M",
      "N", "O", "P", "Q", "R", "S", "T", "U", "V", "W", "X", "Y", "Z">>

IndexOf(seq, x) == CHOOSE i \in 1..Len(seq) : seq[i] = x

\* char as usize, for the characters the texts of the model are made of
CodePoint(char) ==
    IF char \in Range(Digits) THEN 47 + IndexOf(Digits, char)
    ELSE IF char \in Range(UpperCase) THEN 64 + IndexOf(UpperCase, char)
    ELSE IF char \in Range(LowerCase) THEN 96 + IndexOf(LowerCase, char)
    ELSE CASE char = " " -> 32
           [] char = "+" -> 43
           [] char = "-" -> 45
           [] char = "." -> 46
           [] char = "/" -> 47

\* char::from_u32(code).unwrap(), for the codes of digits and letters
CharFromU32(code) ==
    IF code \in 48..57 THEN Digits[code - 47]
    ELSE IF code \in 65..90 THEN UpperCase[code - 64]
    ELSE LowerCase[code - 96]

\* char::to_lowercase().nth(0)
ToLowercase(char) ==
    IF char \in Range(UpperCase) THEN LowerCase[IndexOf(UpperCase, char)] ELSE char

\* str::split(sep).collect_vec(): the pieces of the text between the
\* separators, empty pieces included
Split(text, sep) ==
    LET RECURSIVE pieces(_, _)
        pieces(rest, current) ==
            IF rest = <<>> THEN <<current>>
            ELSE IF Head(rest) = sep THEN <<current>> \o pieces(Tail(rest), <<>>)
            ELSE pieces(Tail(rest), Append(current, Head(rest)))
    IN  pieces(text, <<>>)

\* str::parse::<usize>() returns Err: the text, after one leading '+', is
\* empty or holds a character that is not a digit. (The texts of the model
\* are too short to overflow usize.)
ParseUsizeFails(text) ==
    LET digits == IF text # <<>> /\ Head(text) = "+" THEN Tail(text) ELSE text
    IN  \/ digits = <<>>
        \/ \E i \in 1..Len(digits) : digits[i] \notin Range(Digits)

NameToIndexPair(square_name) ==
    IF Len(square_name) # 2 THEN Err("InvalidArgument")
    ELSE LET column_letter == square_name[1]
             row_number == square_name[2]
         IN  IF \/ CodePoint(column_letter) > CodePoint("h")
                \/ CodePoint(column_letter) < CodePoint("a")
             THEN Err("InvalidArgument")
             ELSE IF \/ CodePoint(row_number) > CodePoint("8")
                     \/ CodePoint(row_number) < CodePoint("1")
             THEN Err("InvalidArgument")
             ELSE Ok(<<7 + CodePoint(column_letter) - CodePoint("h"),
                       7 + CodePoint(row_number) - CodePoint("8")>>)

IndexPairToName(column, row) ==
    IF column > 7 THEN Err("InvalidArgument")
    ELSE IF row > 7 THEN Err("InvalidArgument")
    ELSE Ok(<<CharFromU32(CodePoint("a") + column), CharFromU32(CodePoint("1") + row)>>)

\* the match on the lower-case letter of a piece
PieceTypeOfLetter ==
    [p |-> "Pawn", r |-> "Rook", n |-> "Knight", b |-> "Bishop", k |-> "King", q |-> "Queen"]

\* One rank of the placement field, read from cur_col on: the squares with
\* the pieces of the rank, or failed (an Err returned), or panicked (a store
\* outside the 8 x 8 squares).
RECURSIVE ParseRow(_, _, _, _)
ParseRow(squares, row_str, cur_col, cur_row) ==
    IF row_str = <<>> THEN [failed |-> FALSE, panicked |-> FALSE, squares |-> squares]
    ELSE LET char == Head(row_str)
         IN  IF cur_col > 7 THEN [failed |-> TRUE, panicked |-> FALSE]
             ELSE IF CodePoint(char) >= 48 /\ CodePoint(char) <= 57
             THEN LET num_empty == CodePoint(char) - 48
                  IN  IF cur_col + num_empty > 8
                      THEN [failed |-> TRUE, panicked |-> FALSE]
                      ELSE ParseRow(squares, Tail(row_str), cur_col + num_empty, cur_row)
             ELSE LET piece_side == IF CodePoint(char) >= 97 THEN "Black" ELSE "White"
                      letter == ToLowercase(char)
                  IN  IF letter \notin DOMAIN PieceTypeOfLetter
                      THEN [failed |-> TRUE, panicked |-> FALSE]
                      ELSE IF ~OnBoard(cur_col, cur_row)
                      THEN [failed |-> FALSE, panicked |-> TRUE]
                      ELSE ParseRow([squares EXCEPT ![cur_col][cur_row] =
                                        Some(Piece(cur_col, cur_row, piece_side,
                                                   PieceTypeOfLetter[letter]))],
                                    Tail(row_str), cur_col + 1, cur_row)

\* the ranks of the placement field, from row 7 down
RECURSIVE ParseRows(_, _, _)
ParseRows(squares, rows_str, cur_row) ==
    IF rows_str = <<>> THEN [failed |-> FALSE, panicked |-> FALSE, squares |-> squares]
    ELSE LET row == ParseRow(squares, Head(rows_str), 0, cur_row)
         IN  IF row.failed \/ row.panicked THEN row
             ELSE ParseRows(row.squares, Tail(rows_str),
                            IF cur_row # 0 THEN cur_row - 1 ELSE cur_row)

\* the loop over the castling field that takes every character for a right
CastlingRightsAnything(castling_rights) == TRUE

\* the loop over the castling field finds no character outside K, Q, k, q
CastlingRightsValid(castling_rights) ==
    \/ castling_rights = <<"-">>
    \/ \A i \in 1..Len(castling_rights) : castling_rights[i] \in {"K", "Q", "k", "q"}

FromForsythEdwardsPanics(fen_string) ==
    LET fen_string_split == Split(fen_string, " ")
        rows_str == Split(fen_string_split[1], "/")
    IN  IF Len(fen_string_split) # 6 THEN FALSE
        ELSE IF \E i \in 1..6 : fen_string_split[i] = <<>> THEN FALSE
        ELSE IF Len(rows_str) # 8 THEN FALSE
        ELSE ParseRows(EmptySquares, rows_str, 7).panicked

FromForsythEdwards(fen_string) ==
    LET fen_string_split == Split(fen_string, " ")
        rows_str == Split(fen_string_split[1], "/")
        placed == ParseRows(EmptySquares, rows_str, 7)
        active_color == fen_string_split[2]
        castling_rights == fen_string_split[3]
        en_passant_substr == fen_string_split[4]
        en_passant_square == NameToIndexPair(en_passant_substr)
    IN  IF Len(fen_string_split) # 6 THEN Err("InvalidState")
        ELSE IF \E i \in 1..6 : fen_string_split[i] = <<>> THEN Err("InvalidState")
        ELSE IF Len(rows_str) # 8 THEN Err("InvalidState")
        ELSE IF placed.failed THEN Err("InvalidState")
        ELSE IF Len(active_color) # 1 THEN Err("InvalidState")
        ELSE IF active_color[1] \notin {"w", "b"} THEN Err("InvalidState")
        ELSE IF ~CastlingRightsValid(castling_rights) THEN Err("InvalidState")
        ELSE IF en_passant_substr # <<"-">> /\ ~en_passant_square.ok
        THEN Err("InvalidState")
        ELSE IF ParseUsizeFails(fen_string_split[5]) THEN Err("InvalidState")
        ELSE IF ParseUsizeFails(fen_string_split[6]) THEN Err("InvalidState")
        ELSE Ok([squares |-> placed.squares,
                 state |->
                    [white_castle_queenside |->
                        castling_rights # <<"-">> /\ "Q" \in Range(castling_rights),
                     white_castle_kingside |->
                        castling_rights # <<"-">> /\ "K" \in Range(castling_rights),
                     black_castle_queenside |->
                        castling_rights # <<"-">> /\ "q" \in Range(castling_rights),
                     black_castle_kingside |->
                        castling_rights # <<"-">> /\ "k" \in Range(castling_rights),
                     en_passant_column |->
                        IF en_passant_substr # <<"-">>
                        THEN Some(en_passant_square.value[1]) ELSE None,
                     current_turn |-> IF active_color[1] = "w" THEN "White" ELSE "Black"],
                 board_state_counts |-> <<>>,
                 move_list |-> <<>>])

\* the letter of a piece: one letter per kind, upper case for White, lower
\* case for Black
PieceLetter(piece) ==
    LET letter == CASE piece.piece_type = "Pawn" -> "p"
                    [] piece.piece_type = "Rook" -> "r"
                    [] piece.piece_type = "Knight" -> "n"
                    [] piece.piece_type = "Bishop" -> "b"
                    [] piece.piece_type = "King" -> "k"
                    [] piece.piece_type = "Queen" -> "q"
    IN  IF piece.side = "White" THEN UpperCase[IndexOf(LowerCase, letter)] ELSE letter

\* the count of a run of empty squares, written as nothing
EmptyRunOmitted(empty_squares) == <<>>

\* the count of a run of empty squares, when there is one
EmptyRun(empty_squares) ==
    IF empty_squares > 0 THEN <<CharFromU32(48 + empty_squares)>> ELSE <<>>

\* the text of one rank; row 0 is rank 8
RowText(b, row) ==
    LET RECURSIVE from(_, _)
        from(col, empty_squares) ==
            IF col > 7 THEN EmptyRun(empty_squares)
            ELSE LET s == b.squares[col][7 - row]
                 IN  IF IsSome(s)
                     THEN EmptyRun(empty_squares) \o <<PieceLetter(Unwrap(s))>>
                          \o from(col + 1, 0)
                     ELSE from(col + 1, empty_squares + 1)
    IN  from(0, 0)

PiecePlacement(b) ==
    LET RECURSIVE from(_)
        from(row) == IF row > 7 THEN <<>>
                     ELSE RowText(b, row) \o (IF row # 7 THEN <<"/">> ELSE <<>>)
                          \o from(row + 1)
    IN  from(0)

CastlingAbility(b) ==
    LET castling_ability ==
            (IF b.state.white_castle_kingside THEN <<"K">> ELSE <<>>)
            \o (IF b.state.white_castle_queenside THEN <<"Q">> ELSE <<>>)
            \o (IF b.state.black_castle_kingside THEN <<"k">> ELSE <<>>)
            \o (IF b.state.black_castle_queenside THEN <<"q">> ELSE <<>>)
    IN  IF castling_ability = <<>> THEN <<"-">> ELSE castling_ability

\* index_pair_to_name(c, ..).unwrap() on a column that is no column
ToForsythEdwardsPanics(b) ==
    IF IsNone(b.state.en_passant_column) THEN FALSE
    ELSE ~IndexPairToName(Unwrap(b.state.en_passant_column), 2).ok

EnPassantSqr(b) ==
    IF IsNone(b.state.en_passant_column) THEN <<"-">>
    ELSE IF Not(b.state.current_turn) = "White"
    THEN IndexPairToName(Unwrap(b.state.en_passant_column), 2).value
    ELSE IndexPairToName(Unwrap(b.state.en_passant_column), 5).value

ToForsythEdwards(b) ==
    PiecePlacement(b) \o <<" ">>
    \o <<IF b.state.current_turn = "White" THEN "w" ELSE "b">> \o <<" ">>
    \o CastlingAbility(b) \o <<" ">>
    \o EnPassantSqr(b) \o <<" ">>
    \o <<"0">> \o <<" ">> \o <<"0">>

\* ------------------------------------------------------------ behaviour
Init ==
    /\ start \in 1..Len(StartBoards)
    /\ board = StartBoards[start]
    /\ aborted = FALSE
    /\ fen_text = <<>>
    /\ parsed = None
    /\ calls = <<>>

\* One ply: the caller asks for the moves of the side to move and applies one
\* of them with perform_move_and_record.
PlayMove ==
    /\ ~aborted
    /\ Len(board.move_list) < PlyBound
    /\ ~GetAllMovesPanics(board, board.state.current_turn)
    /\ \E m \in Range(GetAllMoves(board, board.state.current_turn)) :
          IF PerformMoveAndRecordPanics(board, m)
          THEN aborted' = TRUE /\ UNCHANGED <<board, start, fen_text, parsed, calls>>
          ELSE board' = PerformMoveAndRecord(board, m) /\ UNCHANGED <<aborted, start, fen_text, parsed, calls>>

\* Generating the moves of the side to move panics: the program aborts.
GenerateAborts ==
    /\ ~aborted
    /\ Len(board.move_list) < PlyBound
    /\ GetAllMovesPanics(board, board.state.current_turn)
    /\ aborted' = TRUE
    /\ UNCHANGED <<board, start, fen_text, parsed, calls>>

Next == PlayMove \/ GenerateAborts

Spec == Init /\ [][Next]_vars

\* A caller of the library that applies a move get_moves returned for a piece
\* of the side that is not to move (perform_move_and_record does not look at
\* current_turn before it writes it).
RecordOffTurn ==
    /\ ~aborted
    /\ Len(board.move_list) < PlyBound
    /\ \E p \in Range(GetAllPieces(board, Not(board.state.current_turn))) :
          IF GetMovesPanics(p, board)
          THEN aborted' = TRUE /\ UNCHANGED <<board, start, fen_text, parsed, calls>>
          ELSE \E m \in Range(GetMoves(p, board)) :
                  board' = PerformMoveAndRecord(board, m) /\ UNCHANGED <<aborted, start, fen_text, parsed, calls>>

NextApi == PlayMove \/ GenerateAborts \/ RecordOffTurn

SpecApi == Init /\ [][NextApi]_vars

\* Games from the boards with few pieces.
InitEndgame ==
    /\ start \in (Len(StartBoards) + 1)..(Len(StartBoards) + Len(EndgameBoards))
    /\ board = AllBoards[start]
    /\ aborted = FALSE
    /\ fen_text = <<>>
    /\ parsed = None
    /\ calls = <<>>

\* (move generation returns on every board of these games)
NextEndgame == PlayMove

SpecEndgame == InitEndgame /\ [][NextEndgame]_vars

\* A game in which both sides move their king back and forth: one ply whose
\* move, taken from the moves of the side to move, goes to one of
\* ShuffleSquares.
InitShuffle ==
    /\ start = Len(AllBoards)
    /\ board = AllBoards[start]
    /\ aborted = FALSE
    /\ fen_text = <<>>
    /\ parsed = None
    /\ calls = <<>>

Shuffle ==
    /\ ~aborted
    /\ Len(board.move_list) < MaxShufflePly
    /\ ~GetAllMovesPanics(board, board.state.current_turn)
    /\ \E m \in Range(GetAllMoves(board, board.state.current_turn)) :
          /\ m.destination \in ShuffleSquares
          /\ ~PerformMoveAndRecordPanics(board, m)
          /\ board' = PerformMoveAndRecord(board, m)
          /\ UNCHANGED <<aborted, start, fen_text, parsed, calls>>

NextShuffle == Shuffle

SpecShuffle == InitShuffle /\ [][NextShuffle]_vars

\* Texts given to from_forsyth_edwards. A text is six fields joined by
\* single spaces; the placement field is eight ranks joined by '/'.
Join(pieces, sep) ==
    LET RECURSIVE from(_)
        from(i) == IF i > Len(pieces) THEN <<>>
                   ELSE (IF i > 1 THEN <<sep>> ELSE <<>>) \o pieces[i] \o from(i + 1)
    IN  from(1)

\* 8, k7, rnbqkbnr; 7, 6K (seven columns), nothing; p8, ppppppppp, 44P (nine
\* columns); Z7 (a letter that names no piece)
FirstRanks ==
    {<<"8">>, <<"k", "7">>, <<"r", "n", "b", "q", "k", "b", "n", "r">>,
     <<"7">>, <<"6", "K">>, <<>>,
     <<"p", "8">>, <<"p", "p", "p", "p", "p", "p", "p", "p", "p">>, <<"4", "4", "P">>,
     <<"Z", "7">>}

LastRanks == {<<"8">>, <<"3", "K", "3">>}

Placements ==
    {Join(<<first>> \o [i \in 1..6 |-> <<"8">>] \o <<last>>, "/") :
        first \in FirstRanks, last \in LastRanks}
    \cup {Join([i \in 1..7 |-> <<"8">>], "/"), Join([i \in 1..9 |-> <<"8">>], "/")}

ActiveColors == {<<"w">>, <<"b">>, <<"-">>, <<"w", "b">>}

CastlingFields == {<<"-">>, <<"K", "Q", "k", "q">>, <<"K", "Q", "x">>, <<"-", "-">>}

EnPassantFields == {<<"-">>, <<"d", "6">>, <<"a", "9">>, <<"i", "3">>, <<"d">>}

HalfmoveFields == {<<"0">>, <<"1", "2">>, <<"+", "3">>, <<"x">>, <<"-", "1">>}

FullmoveFields == {<<"0">>, <<"3">>, <<"1", ".", "5">>}

\* texts of five and of seven fields, with an empty field, and the text
\* "YEET 1 2 3 4 5" of the test invalid_fen_string_2
OddTexts ==
    {Join([i \in 1..8 |-> <<"8">>], "/"),
     Join([i \in 1..8 |-> <<"8">>], "/") \o <<" ", "w", " ", "-", " ", "-", " ", "0">>,
     Join([i \in 1..8 |-> <<"8">>], "/") \o <<" ", "w", " ", "-", " ", "-", " ", "0", " ">>,
     Join([i \in 1..8 |-> <<"8">>], "/") \o <<" ", "w", " ", " ", "-", " ", "0", " ", "0">>,
     Join([i \in 1..8 |-> <<"8">>], "/")
        \o <<" ", "w", " ", "-", " ", "-", " ", "0", " ", "0", " ", "0">>,
     <<"Y", "E", "E", "T", " ", "1", " ", "2", " ", "3", " ", "4", " ", "5">>}

FenTexts ==
    {Join(<<placement, active_color, castling_rights, en_passant, halfmove, fullmove>>, " ") :
        placement \in Placements, active_color \in ActiveColors,
        castling_rights \in CastlingFields, en_passant \in EnPassantFields,
        halfmove \in HalfmoveFields, fullmove \in FullmoveFields}
    \cup OddTexts

\* A caller gives a text to from_forsyth_edwards.
InitParse ==
    /\ start = 1
    /\ board = AllBoards[start]
    /\ aborted = FALSE
    /\ fen_text \in FenTexts
    /\ parsed = None
    /\ calls = <<>>

Parse ==
    /\ ~aborted
    /\ fen_text # <<>>
    /\ parsed = None
    /\ calls = <<>>
    /\ IF FromForsythEdwardsPanics(fen_text)
       THEN aborted' = TRUE /\ UNCHANGED <<board, start, fen_text, parsed, calls>>
       ELSE /\ parsed' = Some(FromForsythEdwards(fen_text))
            /\ UNCHANGED <<board, aborted, start, fen_text, calls>>

NextParse == Parse

SpecParse == InitParse /\ [][NextParse]_vars

\* A game whose caller writes the board as text after a ply, as the
\* chess.com runner does, and reads the text back.
Export ==
    /\ ~aborted
    /\ IF ToForsythEdwardsPanics(board)
       THEN aborted' = TRUE /\ UNCHANGED <<board, start, fen_text, parsed, calls>>
       ELSE /\ fen_text' = ToForsythEdwards(board)
            /\ parsed' = None
            /\ UNCHANGED <<board, aborted, start, calls>>

NextCodec == PlayMove \/ GenerateAborts \/ Export \/ Parse

SpecCodec == Init /\ [][NextCodec]_vars

\* ------------------------------------------------------------ games from the standard setup
\* plies of a game that follows one of WhiteLines
MaxLinePly == 11

\* a move as the pair of its squares
Step(m) == <<m.from_square, m.destination>>

\* White's moves in three games from the standard setup:
\*   Nf3 g3 Bg2 Nc3          (f1, g1 and b1 are left empty)
\*   a4 a5 Nf3 b4            (a pawn on a5 beside the b-pawn's double advance)
\*   a4 a5 Na3 Nc4 Nb6 b4    (the same with the knight on b6)
WhiteLines ==
    << << <<<<6, 0>>, <<5, 2>>>>, <<<<6, 1>>, <<6, 2>>>>, <<<<5, 0>>, <<6, 1>>>>,
          <<<<1, 0>>, <<2, 2>>>> >>,
       << <<<<0, 1>>, <<0, 3>>>>, <<<<0, 3>>, <<0, 4>>>>, <<<<6, 0>>, <<5, 2>>>>,
          <<<<1, 1>>, <<1, 3>>>> >>,
       << <<<<0, 1>>, <<0, 3>>>>, <<<<0, 3>>, <<0, 4>>>>, <<<<1, 0>>, <<0, 2>>>>,
          <<<<0, 2>>, <<2, 3>>>>, <<<<2, 3>>, <<1, 5>>>>, <<<<1, 1>>, <<1, 3>>>> >> >>

\* Black's moves in these games: Nf6 and Ng8, b6, Ba6, Bb5
BlackSteps ==
    {<<<<6, 7>>, <<5, 5>>>>, <<<<5, 5>>, <<6, 7>>>>,
     <<<<1, 6>>, <<1, 5>>>>, <<<<2, 7>>, <<0, 5>>>>, <<<<0, 5>>, <<1, 4>>>>}

\* the moves White has made, as steps
WhiteSteps(b) ==
    LET RECURSIVE from(_)
        from(i) == IF i > Len(b.move_list) THEN <<>>
                   ELSE <<Step(b.move_list[i])>> \o from(i + 2)
    IN  from(1)

\* the move continues the game: for White the next step of a line it has
\* followed so far, for Black one of BlackSteps
Continues(b, m) ==
    IF b.state.current_turn = "Black" THEN Step(m) \in BlackSteps
    ELSE LET played == WhiteSteps(b)
         IN  \E i \in 1..Len(WhiteLines) :
                /\ Len(WhiteLines[i]) > Len(played)
                /\ SubSeq(WhiteLines[i], 1, Len(played)) = played
                /\ WhiteLines[i][Len(played) + 1] = Step(m)

InitOpening ==
    /\ start = 1
    /\ board = AllBoards[start]
    /\ aborted = FALSE
    /\ fen_text = <<>>
    /\ parsed = None
    /\ calls = <<>>

\* one ply of such a game: a move generated for the side to move is applied
\* with perform_move_and_record
OpeningPly ==
    /\ ~aborted
    /\ Len(board.move_list) < MaxLinePly
    /\ ~GetAllMovesPanics(board, board.state.current_turn)
    /\ \E m \in Range(GetAllMoves(board, board.state.current_turn)) :
          /\ Continues(board, m)
          /\ ~PerformMoveAndRecordPanics(board, m)
          /\ board' = PerformMoveAndRecord(board, m)
          /\ UNCHANGED <<aborted, start, fen_text, parsed, calls>>

\* generating the moves of the side to move panics
OpeningAborts ==
    /\ ~aborted
    /\ Len(board.move_list) < MaxLinePly
    /\ GetAllMovesPanics(board, board.state.current_turn)
    /\ aborted' = TRUE
    /\ UNCHANGED <<board, start, fen_text, parsed, calls>>

NextOpening == OpeningPly \/ OpeningAborts

SpecOpening == InitOpening /\ [][NextOpening]_vars

\* ------------------------------------------------------------ calls of a caller
\* A caller of the library makes, beside the plies of the game, calls of its
\* public functions with arguments of its own choosing. Each call is put
\* down in calls with its arguments and what it returned (None when the
\* program panicked in it).
Call(op, args, returned) == [op |-> op, args |-> args, returned |-> returned]

Panicked(b) == [panicked |-> TRUE, returned |-> None, board |-> b]

Returned(value, b) == [panicked |-> FALSE, returned |-> Some(value), board |-> b]

\* perform_move that hands an empty origin square back to its caller as an Err
PerformMoveOutcomeErrForEmptyOrigin(b, chess_move) ==
    IF IsNone(GetSquareByPosition(b, chess_move.from_square)) THEN Returned(Err(<<>>), b)
    ELSE IF PerformMovePanics(b, chess_move) THEN Panicked(b)
    ELSE Returned(Ok(<<>>), PerformMove(b, chess_move))

\* perform_move as its caller sees it: the program panics, or Ok(()) is
\* returned and the board is the one with the move applied
PerformMoveOutcome(b, chess_move) ==
    IF PerformMovePanics(b, chess_move) THEN Panicked(b)
    ELSE Returned(Ok(<<>>), PerformMove(b, chess_move))

PerformMoveAndRecordOutcome(b, chess_move) ==
    IF PerformMoveAndRecordPanics(b, chess_move) THEN Panicked(b)
    ELSE Returned(Ok(<<>>), PerformMoveAndRecord(b, chess_move))

MoveTypes == {"Standard", "DoubleAdvance", "EnPassant", "Promotion", "Castle"}

\* e1 e3 e5: squares that hold a piece on some boards and are empty on others
OriginSquares == {<<4, 0>>, <<4, 2>>, <<4, 4>>}

\* b1 e4 d6
DestinationSquares == {<<1, 0>>, <<4, 3>>, <<3, 5>>}

\* calls a caller makes from one board
MaxCalls == 1

\* The caller applies a move it built itself, as the tests and the chess.com
\* runner do, with perform_move or with perform_move_and_record.
CallPerformMove ==
    /\ ~aborted
    /\ Len(calls) < MaxCalls
    /\ \E from \in OriginSquares, dest \in DestinationSquares, kind \in MoveTypes,
          op \in {"perform_move", "perform_move_and_record"} :
          LET chess_move == Move(from, dest, kind, None)
              outcome == IF op = "perform_move"
                         THEN PerformMoveOutcome(board, chess_move)
                         ELSE PerformMoveAndRecordOutcome(board, chess_move)
          IN  /\ aborted' = outcome.panicked
              /\ board' = outcome.board
              /\ calls' = Append(calls, Call(op, <<chess_move>>, outcome.returned))
              /\ UNCHANGED <<start, fen_text, parsed>>

\* squares[column][row] on the 8 by 8 array: an index past 7 panics
GetSquareByIndexPanics(column, row) == column > 7 \/ row > 7

GetSquareByName(b, square_name) ==
    LET pair == NameToIndexPair(square_name)
    IN  IF ~pair.ok THEN pair
        ELSE Ok(GetSquareByIndex(b, pair.value[1], pair.value[2]))

\* get_square_by_index as its caller sees it
GetSquareByIndexOutcome(b, column, row) ==
    IF GetSquareByIndexPanics(column, row) THEN Panicked(b)
    ELSE Returned(GetSquareByIndex(b, column, row), b)

\* a1 e3 h8, and z1 a9 abc123 of the tests, i1 a0 e E4 4e and the empty text
LookupNames ==
    {<<"a", "1">>, <<"e", "3">>, <<"h", "8">>,
     <<"z", "1">>, <<"a", "9">>, <<"a", "b", "c", "1", "2", "3">>,
     <<"i", "1">>, <<"a", "0">>, <<"e">>, <<"E", "4">>, <<"4", "e">>, <<>>}

\* column and row indexes (usize): on the board and past it
LookupIndexes == {0, 4, 7, 8, 9}

\* The caller looks a square up by its name or by its indexes, or converts
\* between the two.
CallLookup ==
    /\ ~aborted
    /\ Len(calls) < MaxCalls
    /\ \/ \E square_name \in LookupNames :
             \/ calls' = Append(calls, Call("name_to_index_pair", <<square_name>>,
                                            Some(NameToIndexPair(square_name))))
             \/ calls' = Append(calls, Call("get_square_by_name", <<square_name>>,
                                            Some(GetSquareByName(board, square_name))))
       \/ \E column \in LookupIndexes, row \in LookupIndexes :
             calls' = Append(calls, Call("index_pair_to_name", <<column, row>>,
                                         Some(IndexPairToName(column, row))))
    /\ UNCHANGED <<board, aborted, start, fen_text, parsed>>

CallGetSquare ==
    /\ ~aborted
    /\ Len(calls) < MaxCalls
    /\ \E column \in LookupIndexes, row \in LookupIndexes,
          op \in {"get_square_by_index", "get_square_by_position"} :
          LET outcome == GetSquareByIndexOutcome(board, column, row)
          IN  /\ aborted' = outcome.panicked
              /\ calls' = Append(calls, Call(op, <<column, row>>, outcome.returned))
    /\ UNCHANGED <<board, start, fen_text, parsed>>

InitLookup ==
    /\ start \in 1..Len(AllBoards)
    /\ board = AllBoards[start]
    /\ aborted = FALSE
    /\ fen_text = <<>>
    /\ parsed = None
    /\ calls = <<>>

NextLookup == CallLookup \/ CallGetSquare

SpecLookup == InitLookup /\ [][NextLookup]_vars

\* get_specific_move as its caller sees it
GetSpecificMoveOutcome(piece, b, desired_move) ==
    IF GetMovesPanics(piece, b) THEN Panicked(b)
    ELSE Returned(GetSpecificMove(piece, b, desired_move), b)

\* destinations asked for: DestinationSquares, a5, and (8, 0) and (4, 8) past
\* the board
DesiredSquares == DestinationSquares \cup {<<0, 4>>, <<8, 0>>, <<4, 8>>}

\* e1 e2 e5 c4 a7
PieceSquares == {<<4, 0>>, <<4, 1>>, <<4, 4>>, <<2, 3>>, <<0, 6>>}

\* The caller takes a piece from one of PieceSquares and asks for its move to
\* a destination.
CallGetSpecificMove ==
    /\ ~aborted
    /\ Len(calls) < MaxCalls
    /\ \E from \in PieceSquares, desired_move \in DesiredSquares :
          /\ IsSome(GetSquareByPosition(board, from))
          /\ LET piece == Unwrap(GetSquareByPosition(board, from))
                 outcome == GetSpecificMoveOutcome(piece, board, desired_move)
             IN  /\ aborted' = outcome.panicked
                 /\ calls' = Append(calls, Call("get_specific_move",
                                                <<piece, desired_move>>, outcome.returned))
    /\ UNCHANGED <<board, start, fen_text, parsed>>

\* The plies of a game followed up to the calls of the caller.
PlyBeforeCalls == calls = <<>> /\ PlayMove

PlyAbortsBeforeCalls == calls = <<>> /\ GenerateAborts

NextCalls == PlyBeforeCalls \/ PlyAbortsBeforeCalls \/ CallPerformMove

SpecCalls == Init /\ [][NextCalls]_vars

NextSelect == PlyBeforeCalls \/ PlyAbortsBeforeCalls \/ CallGetSpecificMove

SpecSelect == Init /\ [][NextSelect]_vars

\* ============================================================ properties
\* vocabulary of the properties
Last(s) == s[Len(s)]

Turn == board.state.current_turn

Played == ~aborted /\ board.move_list # <<>>

AllKings(b) == Range(Kings(b, "White")) \cup Range(Kings(b, "Black"))

AllPawns(b) ==
    {p \in Range(GetAllPieces(b, "White")) \cup Range(GetAllPieces(b, "Black")) :
        p.piece_type = "Pawn"}

HomeRow(side) == IF side = "White" THEN 0 ELSE 7

FarRow(side) == IF side = "White" THEN 7 ELSE 0

Wings == {"queenside", "kingside"}

CornerColumn(wing) == IF wing = "queenside" THEN 0 ELSE 7

WingOf(m) == IF m.destination[1] < m.from_square[1] THEN "queenside" ELSE "kingside"

HoldsRight(b, side, wing) ==
    IF wing = "queenside" THEN CastleQueenside(b, side) ELSE CastleKingside(b, side)

\* the Castle moves get_moves returns to a king for a wing
CastlesOffered(king, b, wing) ==
    {m \in Range(GetMoves(king, b)) : m.move_type = "Castle" /\ WingOf(m) = wing}

\* the columns strictly between a king and the corner of a wing
Between(king, wing) ==
    IF wing = "queenside" THEN 1..(king.position[1] - 1) ELSE (king.position[1] + 1)..6

\* the corner of a wing holds a rook of the side
OwnRookOnCorner(b, side, wing) ==
    GetSquareByIndex(b, CornerColumn(wing), HomeRow(side))
        = Some(Piece(CornerColumn(wing), HomeRow(side), side, "Rook"))

\* a piece came to the square at some ply of the game: the piece now on it
\* has moved
Arrived(b, square) ==
    \E i \in 1..Len(b.move_list) :
        LET m == b.move_list[i]
        IN  \/ m.destination = square
            \/ /\ m.move_type = "Castle"
               /\ square = <<IF m.destination[1] = 1 THEN 2 ELSE 5, m.destination[2]>>

\* ------------------------------------------------------------------- C1
\* C1: whenever the moves of the side to move can be generated, none of
\* them, once applied with perform_move_and_record, leaves the king of the
\* side that moved attacked.
C1_NoMoveLeavesOwnKingInCheck ==
    ~GetAllMovesPanics(board, Turn) =>
        \A m \in Range(GetAllMoves(board, Turn)) :
            LET after == PerformMoveAndRecord(board, m)
            IN  /\ ~PerformMoveAndRecordPanics(board, m)
                /\ ~IsCheckedPanics(after, Turn)
                /\ ~IsChecked(after, Turn)

\* a game has reached a board where the side to move is not in check and one
\* of its pieces other than the king is pinned: some move it could make would
\* expose the king, and none of the moves it is given does
C1_PinnedPieceReached ==
    /\ Played
    /\ ~GetAllMovesPanics(board, Turn)
    /\ ~IsChecked(board, Turn)
    /\ \E p \in Range(GetAllPieces(board, Turn)) :
          /\ p.piece_type # "King"
          /\ \E m \in Range(UnfilteredMoves(p, board)) : MoveWouldCauseSelfCheck(board, m)
          /\ \A m \in Range(GetMoves(p, board)) :
                ~IsChecked(PerformMoveAndRecord(board, m), Turn)

\* ------------------------------------------------------------------- C2
\* C2: a king on column 4 of its home row that holds the queenside right, is
\* not in check, and has the squares between it and the rook of its side on
\* column 0 empty and unattacked, gets from get_specific_move for column 2 of
\* its home row a Castle move; once that move is applied the king stands on
\* column 2 and a rook of its side on column 3 of that row.
C2_QueensideCastleToColumnTwo ==
    \A king \in AllKings(board) :
        LET side == king.side
            row == HomeRow(side)
            found == GetSpecificMove(king, board, <<2, row>>)
            after == PerformMoveAndRecord(board, found.value)
        IN  (/\ king.position = <<4, row>>
             /\ CastleQueenside(board, side)
             /\ ~IsChecked(board, side)
             /\ OwnRookOnCorner(board, side, "queenside")
             /\ \A col \in 1..3 :
                   /\ IsNone(GetSquareByIndex(board, col, row))
                   /\ ~IsSquareThreatened(board, Not(side), <<col, row>>)
             /\ ~GetMovesPanics(king, board))
            => /\ found.ok
               /\ found.value.move_type = "Castle"
               /\ GetSquareByIndex(after, 2, row) = Some(Piece(2, row, side, "King"))
               /\ GetSquareByIndex(after, 3, row) = Some(Piece(3, row, side, "Rook"))

\* ------------------------------------------------------------------- C3
\* C3: when a side still holds the right for a wing but the corner square of
\* that wing is empty or holds anything but a rook of that side, get_moves
\* for the king of that side returns no Castle move for that wing.
C3_NoCastleWithoutCornerRook ==
    \A king \in AllKings(board) : \A wing \in Wings :
        (/\ HoldsRight(board, king.side, wing)
         /\ ~OwnRookOnCorner(board, king.side, wing)
         /\ ~GetMovesPanics(king, board))
        => CastlesOffered(king, board, wing) = {}

\* ------------------------------------------------------------------- C4
RightNames ==
    {"white_castle_queenside", "white_castle_kingside",
     "black_castle_queenside", "black_castle_kingside"}

Corners == {<<0, 0>>, <<7, 0>>, <<0, 7>>, <<7, 7>>}

\* the right perform_move ties to a corner square
CornerRight(square) ==
    CASE square = <<0, 0>> -> "white_castle_queenside"
      [] square = <<7, 0>> -> "white_castle_kingside"
      [] square = <<0, 7>> -> "black_castle_queenside"
      [] square = <<7, 7>> -> "black_castle_kingside"

\* C4: every recorded move leaves each castling right as it was or cleared,
\* never set again; a king's move leaves both rights of its side cleared, and
\* a rook's move whose origin is a corner leaves the right of that corner
\* cleared.
C4_RightsOnlyCleared ==
    [][board'.move_list # board.move_list =>
        LET m == Last(board'.move_list)
            piece == Unwrap(GetSquareByPosition(board, m.from_square))
            was == board.state
            now == board'.state
        IN  /\ \A f \in RightNames : now[f] => was[f]
            /\ piece.piece_type = "King" =>
                  /\ ~HoldsRight(board', piece.side, "queenside")
                  /\ ~HoldsRight(board', piece.side, "kingside")
            /\ (piece.piece_type = "Rook" /\ m.from_square \in Corners)
                  => ~now[CornerRight(m.from_square)]
    ]_vars

\* a game that began with both White rights has seen the a1 rook leave its
\* corner: the queenside right is gone, the kingside right is still held
C4_RookLeftCorner ==
    /\ Played
    /\ StartBoards[start].state.white_castle_queenside
    /\ StartBoards[start].state.white_castle_kingside
    /\ board.move_list[1].from_square = <<0, 0>>
    /\ board.move_list[1].move_type = "Standard"
    /\ ~board.state.white_castle_queenside
    /\ board.state.white_castle_kingside

\* ------------------------------------------------------------------- C5
\* C5: a Castle move is offered to a king for a wing only if the king has
\* not moved at any earlier ply and, when a rook of its side stands on the
\* corner of that wing, that rook has not moved at any earlier ply either.
C5_CastleOnlyWithUnmovedKingAndRook ==
    \A king \in AllKings(board) : \A wing \in Wings :
        (/\ ~GetMovesPanics(king, board)
         /\ CastlesOffered(king, board, wing) # {})
        => /\ ~Arrived(board, king.position)
           /\ OwnRookOnCorner(board, king.side, wing)
                 => ~Arrived(board, <<CornerColumn(wing), HomeRow(king.side)>>)

\* ------------------------------------------------------------------- C6
\* C6: when a Castle move is offered to a king for a wing, the king is not
\* in check, every square strictly between the king and the corner of that
\* wing is empty, and no square from the one next to the king to the one the
\* king lands on is attacked by the other side.
C6_CastleNeverThroughCheckOrPieces ==
    \A king \in AllKings(board) : \A wing \in Wings :
        ~GetMovesPanics(king, board) =>
            \A m \in CastlesOffered(king, board, wing) :
                LET row == king.position[2]
                    crossed == IF wing = "queenside"
                               THEN m.destination[1]..(king.position[1] - 1)
                               ELSE (king.position[1] + 1)..m.destination[1]
                IN  /\ ~IsChecked(board, king.side)
                    /\ \A col \in Between(king, wing) :
                          IsNone(GetSquareByIndex(board, col, row))
                    /\ \A col \in crossed :
                          ~IsSquareThreatened(board, Not(king.side), <<col, row>>)

\* in a game under way a king that holds the right for a wing, is not in
\* check and has the squares to the corner rook empty is refused the Castle
\* move because a square it would cross is attacked, while a Castle move is
\* offered to a king on the board
C6_CastleRefusedForAttackedSquare ==
    /\ Played
    /\ \E king \in AllKings(board) : \E wing \in Wings :
          /\ ~GetMovesPanics(king, board)
          /\ HoldsRight(board, king.side, wing)
          /\ OwnRookOnCorner(board, king.side, wing)
          /\ ~IsChecked(board, king.side)
          /\ \A col \in Between(king, wing) :
                IsNone(GetSquareByIndex(board, col, king.position[2]))
          /\ \E col \in Between(king, wing) :
                IsSquareThreatened(board, Not(king.side), <<col, king.position[2]>>)
          /\ CastlesOffered(king, board, wing) = {}
    /\ \E king \in AllKings(board) : \E wing \in Wings :
          /\ ~GetMovesPanics(king, board)
          /\ CastlesOffered(king, board, wing) # {}

\* ------------------------------------------------------------------- C7
\* C7: after a recorded move the en passant column is the destination column
\* of that move when the move is a DoubleAdvance, and none after a move of
\* any other kind; so a column that is set does not outlive the next ply.
C7_EnPassantColumnFollowsLastMove ==
    Played =>
        board.state.en_passant_column =
            IF Last(board.move_list).move_type = "DoubleAdvance"
            THEN Some(Last(board.move_list).destination[1])
            ELSE None

\* a DoubleAdvance set the column and the ply after it cleared it again
C7_ColumnSetThenCleared ==
    /\ Played
    /\ Len(board.move_list) = 2
    /\ board.move_list[1].move_type = "DoubleAdvance"
    /\ board.move_list[2].move_type # "DoubleAdvance"
    /\ board.state.en_passant_column = None

\* ------------------------------------------------------------------- C8
\* C8: right after a pawn has double-advanced to column C, every pawn of the
\* other side on the same row in column C-1 or C+1 whose capture would not
\* expose its own king is given an EnPassant move to column C, one row past
\* the advanced pawn, that names the advanced pawn's square as captured; the
\* move applied, the capturing pawn stands on the destination and both its
\* origin and the advanced pawn's square are empty.
C8_EnPassantOfferedAndApplied ==
    (Played /\ Last(board.move_list).move_type = "DoubleAdvance") =>
        LET C == Last(board.move_list).destination[1]
            R == Last(board.move_list).destination[2]
            advanced == Unwrap(GetSquareByIndex(board, C, R))
            behind == IF advanced.side = "White" THEN R - 1 ELSE R + 1
        IN  \A c \in {C - 1, C + 1} \cap (0..7) :
                LET square == GetSquareByIndex(board, c, R)
                    pawn == Unwrap(square)
                    capture == Move(<<c, R>>, <<C, behind>>, "EnPassant", Some(<<C, R>>))
                    after == PerformMoveAndRecord(board, capture)
                IN  (/\ IsSome(square)
                     /\ pawn.piece_type = "Pawn"
                     /\ pawn.side # advanced.side
                     /\ ~MoveWouldCauseSelfCheck(board, capture))
                    => /\ ~GetMovesPanics(pawn, board)
                       /\ capture \in Range(GetMoves(pawn, board))
                       /\ GetSquareByIndex(after, C, behind)
                             = Some(Piece(C, behind, pawn.side, "Pawn"))
                       /\ IsNone(GetSquareByIndex(after, c, R))
                       /\ IsNone(GetSquareByIndex(after, C, R))

\* a pawn double-advanced beside a pawn of the other side and was captured
\* en passant on the next ply
C8_CapturedEnPassant ==
    /\ Played
    /\ Len(board.move_list) = 2
    /\ board.move_list[1].move_type = "DoubleAdvance"
    /\ board.move_list[2].move_type = "EnPassant"
    /\ board.move_list[2].captures = Some(board.move_list[1].destination)
    /\ IsNone(GetSquareByPosition(board, board.move_list[1].destination))
    /\ IsNone(GetSquareByPosition(board, board.move_list[2].from_square))
    /\ IsSome(GetSquareByPosition(board, board.move_list[2].destination))

\* ------------------------------------------------------------------- C9
\* C9: no pawn stands on its far row; and whenever get_moves returns for a
\* pawn, every move it returns that lands on the far row of the pawn's side,
\* push or capture, is of kind Promotion and, applied, leaves a queen of that
\* side on the destination.
C9_FarRowMovesPromoteToQueen ==
    \A p \in AllPawns(board) :
        /\ p.position[2] # FarRow(p.side)
        /\ ~GetMovesPanics(p, board) =>
              \A m \in Range(GetMoves(p, board)) :
                  m.destination[2] = FarRow(p.side) =>
                      /\ m.move_type = "Promotion"
                      /\ GetSquareByPosition(PerformMoveAndRecord(board, m), m.destination)
                            = Some(Piece(m.destination[1], m.destination[2], p.side, "Queen"))

\* a pawn has captured onto its far row and a queen of its side stands there
C9_PromotedByCapture ==
    /\ Played
    /\ Last(board.move_list).move_type = "Promotion"
    /\ IsSome(Last(board.move_list).captures)
    /\ LET m == Last(board.move_list)
           queen == Unwrap(GetSquareByPosition(board, m.destination))
       IN  /\ queen.piece_type = "Queen"
           /\ m.destination[2] = FarRow(queen.side)

\* ------------------------------------------------------------------ C10
\* C10 (as the code has it): after perform_move_and_record the side to move
\* is the opposite of the side of the piece that stood on the move's origin
\* square; it differs from the side to move before the call exactly when the
\* piece moved belonged to the side that was to move.
C10_TurnIsOppositeOfMover ==
    [][board'.move_list # board.move_list =>
        LET mover == Unwrap(GetSquareByPosition(board, Last(board'.move_list).from_square)).side
        IN  /\ board'.state.current_turn = Not(mover)
            /\ (board'.state.current_turn # board.state.current_turn)
                  <=> (mover = board.state.current_turn)
    ]_vars

\* C10 (as stated): perform_move_and_record of a move get_moves returned for
\* a piece on the board leaves the side to move the opposite of what it was.
C10_TurnAlwaysFlips ==
    [][board'.move_list # board.move_list =>
        board'.state.current_turn # board.state.current_turn
    ]_vars

\* a move of a piece of the side not to move was recorded as the first move
\* of a game, and the side to move is the one it was at the start
C10_OffTurnMoveRecorded ==
    /\ Played
    /\ Len(board.move_list) = 1
    /\ board.state.current_turn = StartBoards[start].state.current_turn
    /\ Unwrap(GetSquareByPosition(board, board.move_list[1].destination)).side
          = Not(board.state.current_turn)

\* ------------------------------------------------------------------ C11
\* the sum of the repetition counters of a board
SumOfCounts(b) ==
    LET counts == b.board_state_counts
        RECURSIVE sum(_)
        sum(keys) == IF keys = {} THEN 0
                     ELSE LET k == CHOOSE k \in keys : TRUE
                          IN  counts[k] + sum(keys \ {k})
    IN  sum(DOMAIN counts)

\* C11: a newly created board has an empty history and no counters; every
\* perform_move_and_record that returns appends exactly one entry to the
\* history, leaves the earlier entries as they were and raises the sum of the
\* repetition counters by exactly one, a Castle ply included. So after n
\* recorded plies the history has length n and the counters sum to n.
C11_OneHistoryEntryAndOneCountPerPly ==
    /\ [](SumOfCounts(board) = Len(board.move_list))
    /\ [][board' # board =>
            /\ Len(board'.move_list) = Len(board.move_list) + 1
            /\ SubSeq(board'.move_list, 1, Len(board.move_list)) = board.move_list
            /\ SumOfCounts(board') = SumOfCounts(board) + 1]_vars

\* a Castle ply and a second ply have been recorded
C11_CastleThenAnotherPlyRecorded ==
    /\ Played
    /\ Len(board.move_list) = 2
    /\ board.move_list[1].move_type = "Castle"
    /\ SumOfCounts(board) = 2

\* --------------------------------------------------- vocabulary, end of game
Sides == {"White", "Black"}

\* is_game_over returns for the side on this board
Returns(b, s) == ~IsGameOverPanics(b, s)

InCheck(b, s) == IsChecked(b, s)

HasNoMoves(b, s) == GetAllMoves(b, s) = <<>>

Opponent(s) == Not(s)

Win(side, reason) ==
    IF side = "White" THEN WhiteVictory(reason) ELSE BlackVictory(reason)

\* the kinds of the pieces of a side other than its king, as a bag
Material(b, s) ==
    LET others == NonKings(GetAllPieces(b, s))
    IN  [kind \in {"Pawn", "Rook", "Knight", "Bishop", "Queen"} |->
            Cardinality({i \in 1..Len(others) : others[i].piece_type = kind})]

MaterialCount(b, s) == Len(NonKings(GetAllPieces(b, s)))

Minors(b, s) == Material(b, s)["Knight"] + Material(b, s)["Bishop"]

\* the material of the board is one of: king against king; king against
\* king and one bishop or knight; king against king and two knights; king
\* and one bishop or knight on each side
FewPieces(b) ==
    \/ MaterialCount(b, "White") = 0 /\ MaterialCount(b, "Black") = 0
    \/ \E s \in Sides :
          /\ MaterialCount(b, s) = 0
          /\ \/ MaterialCount(b, Not(s)) = 1 /\ Minors(b, Not(s)) = 1
             \/ MaterialCount(b, Not(s)) = 2 /\ Material(b, Not(s))["Knight"] = 2
    \/ \A s \in Sides : MaterialCount(b, s) = 1 /\ Minors(b, s) = 1

\* neither checkmate, nor stalemate, nor a material draw for the side
NoOtherEnd(b, s) == Returns(b, s) /\ ~HasNoMoves(b, s) /\ ~FewPieces(b)

\* how often the position of the board has been recorded
TimesRecorded(b) ==
    IF GetBoardStateHash(b) \in DOMAIN b.board_state_counts
    THEN b.board_state_counts[GetBoardStateHash(b)] ELSE 0

C13_ThreeOrMoreTimesIsDraw ==
    \A s \in Sides :
        (/\ Played
         /\ NoOtherEnd(board, s)
         /\ \E k \in DOMAIN board.board_state_counts :
                board.board_state_counts[k] >= 3) =>
            IsGameOver(board, s) = Some(Draw("Draw by repetition"))

\* ------------------------------------------------------------------ C14
\* the board after the moves have been recorded on it one after the other
RECURSIVE Replayed(_, _)
Replayed(b, moves) ==
    IF moves = <<>> THEN b
    ELSE LET recorded == PerformMoveAndRecord(b, Head(moves))
         IN  IF recorded.move_list = <<>> THEN recorded
             ELSE Replayed(recorded, Tail(moves))

\* the board as it was recorded at ply i of the game
RecordedAt(i) == Replayed(AllBoards[start], SubSeq(board.move_list, 1, i))

\* same piece placement, side to move, castling rights and en passant column
SamePosition(a, b) == a.squares = b.squares /\ a.state = b.state

\* C14: two positions recorded in a game are counted under the same
\* repetition key only if they have the same piece placement, the same side to
\* move, the same four castling rights and the same en passant column.
C14_SameKeyOnlyForSamePosition ==
    Played =>
        \A i \in 1..(Len(board.move_list) - 1) :
            GetBoardStateHash(RecordedAt(i)) = GetBoardStateHash(board) =>
                SamePosition(RecordedAt(i), board)

C16_NoMovesWithoutCheckIsDraw ==
    \A s \in Sides :
        (Returns(board, s) /\ ~InCheck(board, s) /\ HasNoMoves(board, s)) =>
            /\ IsSome(IsGameOver(board, s))
            /\ Unwrap(IsGameOver(board, s)).outcome = "Draw"

\* White, to move, is not in check and has no move, on a board whose
\* material alone would be a draw
C16_WhiteStalemated ==
    /\ Played
    /\ Turn = "White"
    /\ Returns(board, "White")
    /\ ~InCheck(board, "White")
    /\ HasNoMoves(board, "White")
    /\ FewPieces(board)
    /\ Unwrap(IsGameOver(board, "White")).outcome = "Draw"

\* ------------------------------------------------------------------ C17
\* C17: wherever is_game_over returns for a side that has a move, it returns
\* Draw("Insufficient material") exactly when the material is king against
\* king, king against king and one bishop or knight, king against king and
\* two knights, or king and one bishop or knight on each side.
C17_InsufficientMaterialExactlyForFewPieces ==
    \A s \in Sides :
        (Returns(board, s) /\ ~HasNoMoves(board, s)) =>
            (IsGameOver(board, s) = Some(Draw("Insufficient material"))
                <=> FewPieces(board))

\* ------------------------------------------------- vocabulary, position text
\* the fields of a text
Fields(text) == Split(text, " ")

SixFields(text) ==
    Len(Fields(text)) = 6 /\ \A i \in 1..6 : Fields(text)[i] # <<>>

\* the ranks of the placement field
Ranks(text) == Split(Fields(text)[1], "/")

PieceLetters == {"p", "r", "n", "b", "k", "q", "P", "R", "N", "B", "K", "Q"}

\* the columns a rank describes: its digits and one for each other character
RECURSIVE Columns(_)
Columns(rank) ==
    IF rank = <<>> THEN 0
    ELSE (IF Head(rank) \in Range(Digits) THEN IndexOf(Digits, Head(rank)) - 1 ELSE 1)
         + Columns(Tail(rank))

UnknownLetter(rank) ==
    \E i \in 1..Len(rank) : rank[i] \notin Range(Digits) \cup PieceLetters

SquareNames == {<<LowerCase[c], Digits[r + 1]>> : c \in 1..8, r \in 1..8}

\* a decimal numeral, with or without a plus sign
NonNegativeInteger(text) ==
    LET numeral == IF text # <<>> /\ Head(text) = "+" THEN Tail(text) ELSE text
    IN  numeral # <<>> /\ \A i \in 1..Len(numeral) : numeral[i] \in Range(Digits)

\* the result of the last from_forsyth_edwards
Result == Unwrap(parsed)

\* ------------------------------------------------------------------ C18
\* C18: from_forsyth_edwards returns InvalidState for every text with a rank
\* in its placement field that describes more or fewer than 8 columns or
\* holds a character that is neither a digit nor the letter of a piece.
C18_RankNotOfEightColumnsIsInvalidState ==
    (/\ IsSome(parsed)
     /\ \E i \in 1..Len(Ranks(fen_text)) :
            Columns(Ranks(fen_text)[i]) # 8 \/ UnknownLetter(Ranks(fen_text)[i])) =>
        Result = Err("InvalidState")

\* ------------------------------------------------------------------ C19
\* C19: from_forsyth_edwards does not abort, and returns InvalidState for
\* every text that is not six non-empty fields separated by single spaces,
\* whose placement field is not 8 ranks, whose second field is neither w nor
\* b, whose third field is not - and has a character outside K Q k q, whose
\* fourth field is neither - nor the name of a square, or whose fifth or sixth
\* field is not a non-negative integer.
C19_MalformedTextIsInvalidState ==
    /\ ~aborted
    /\ (/\ IsSome(parsed)
        /\ IF ~SixFields(fen_text) THEN TRUE
           ELSE \/ Len(Ranks(fen_text)) # 8
                \/ Fields(fen_text)[2] \notin {<<"w">>, <<"b">>}
                \/ /\ Fields(fen_text)[3] # <<"-">>
                   /\ \E i \in 1..Len(Fields(fen_text)[3]) :
                          Fields(fen_text)[3][i] \notin {"K", "Q", "k", "q"}
                \/ Fields(fen_text)[4] \notin {<<"-">>} \cup SquareNames
                \/ ~NonNegativeInteger(Fields(fen_text)[5])
                \/ ~NonNegativeInteger(Fields(fen_text)[6])) =>
           Result = Err("InvalidState")

\* a text whose only fault is a character outside K Q k q in its third field
\* has been refused
C19_BadCastlingFieldRefused ==
    /\ IsSome(parsed)
    /\ fen_text = Join(<<Join([i \in 1..8 |-> <<"8">>], "/"), <<"w">>,
                         <<"K", "Q", "x">>, <<"-">>, <<"0">>, <<"0">>>>, " ")
    /\ Result = Err("InvalidState")

\* ------------------------------------------------------------------ C20
\* rnbqkbnr/pppppppp/8/8/8/8/PPPPPPPP/RNBQKBNR w KQkq - 0 0
StandardText ==
    <<"r", "n", "b", "q", "k", "b", "n", "r", "/",
      "p", "p", "p", "p", "p", "p", "p", "p", "/",
      "8", "/", "8", "/", "8", "/", "8", "/",
      "P", "P", "P", "P", "P", "P", "P", "P", "/",
      "R", "N", "B", "Q", "K", "B", "N", "R",
      " ", "w", " ", "K", "Q", "k", "q", " ", "-", " ", "0", " ", "0">>

\* the text is the one to_forsyth_edwards writes for the board
TextOfBoard == ~aborted /\ fen_text = ToForsythEdwards(board)

\* C20: from_forsyth_edwards of the text to_forsyth_edwards writes for a
\* board returns Ok with a board of the same piece placement, side to move,
\* castling rights and en passant column, and so of the same position hash;
\* the text written for the standard setup is
\* rnbqkbnr/pppppppp/8/8/8/8/PPPPPPPP/RNBQKBNR w KQkq - 0 0, and the board read
\* from that text has the hash of ChessBoard::new().
C20_TextOfBoardReadsBackAsBoard ==
    /\ (TextOfBoard /\ IsSome(parsed)) =>
          /\ Result.ok
          /\ SamePosition(Result.value, board)
          /\ GetBoardStateHash(Result.value) = GetBoardStateHash(board)
    /\ (TextOfBoard /\ SamePosition(board, NewBoard)) => fen_text = StandardText
    /\ (fen_text = StandardText /\ IsSome(parsed)) =>
          /\ Result.ok
          /\ GetBoardStateHash(Result.value) = GetBoardStateHash(NewBoard)

\* a board with an en passant column and without some castling right has
\* been written and read back
C20_ReadBackAfterDoubleAdvance ==
    /\ Played
    /\ TextOfBoard
    /\ IsSome(parsed)
    /\ IsSome(board.state.en_passant_column)
    /\ ~board.state.white_castle_kingside
    /\ Result.ok
    /\ Result.value.state.en_passant_column = board.state.en_passant_column

\* ------------------------------------------------------------------ C21
\* the call the caller made last
LastCall == Last(calls)

\* the caller has just made a call of one of the functions named
Calls(ops) == calls' # calls /\ Last(calls').op \in ops

\* C21: a call of perform_move or of perform_move_and_record with a move
\* whose origin square is empty aborts the program: nothing is returned to
\* the caller, neither an Err nor an Ok, and the board is not modified.
C21_EmptyOriginAborts ==
    [][(/\ Calls({"perform_move", "perform_move_and_record"})
        /\ IsNone(GetSquareByPosition(board, Last(calls').args[1].from_square))) =>
           /\ aborted'
           /\ Last(calls').returned = None
           /\ board' = board]_vars

\* perform_move_and_record has been called with a move from an empty square
\* and the program has aborted in it
C21_CalledWithEmptyOrigin ==
    /\ calls # <<>>
    /\ LastCall.op = "perform_move_and_record"
    /\ IsNone(GetSquareByPosition(board, LastCall.args[1].from_square))
    /\ aborted
    /\ LastCall.returned = None

\* ------------------------------------------------------------------ C22
\* the functions that take the name of a square, and those that take indexes
ByName == {"name_to_index_pair", "get_square_by_name"}

ByIndex == {"index_pair_to_name", "get_square_by_index", "get_square_by_position"}

\* the arguments of the call just made do not name a square of the board
Malformed(call) ==
    IF call.op \in ByName THEN call.args[1] \notin SquareNames
    ELSE call.args[1] > 7 \/ call.args[2] > 7

\* C22: every lookup (name_to_index_pair, index_pair_to_name,
\* get_square_by_name, get_square_by_index, get_square_by_position) given a
\* malformed square name or a column or row index out of range returns an
\* InvalidArgument error to its caller, does not abort, and leaves the board
\* unchanged.
C22_MalformedLookupIsInvalidArgument ==
    [][(Calls(ByName \cup ByIndex) /\ Malformed(Last(calls'))) =>
           /\ ~aborted'
           /\ Last(calls').returned = Some(Err("InvalidArgument"))
           /\ board' = board]_vars

\* ------------------------------------------------------------------ C23
\* C23: get_specific_move(piece, board, dest) returns Ok(m) with
\* m.destination = dest when dest is the destination of one of the legal moves
\* of the piece on the board, and an InvalidMove error for every other dest;
\* either way the call returns and the board is unchanged.
C23_SpecificMoveIsLegalMoveToDestination ==
    [][Calls({"get_specific_move"}) =>
          LET piece == Last(calls').args[1]
              dest == Last(calls').args[2]
              returned == Last(calls').returned
          IN  /\ ~aborted'
              /\ board' = board
              /\ IsSome(returned)
              /\ IF \E m \in Range(GetMoves(piece, board)) : m.destination = dest
                 THEN Unwrap(returned).ok /\ Unwrap(returned).value.destination = dest
                 ELSE Unwrap(returned) = Err("InvalidMove")]_vars

\* ------------------------------------------------------------------ C24
\* every piece stored in the grid of the board has the cell as its position
PositionsAgree(b) ==
    \A c \in 0..7, r \in 0..7 :
        IsSome(b.squares[c][r]) => Unwrap(b.squares[c][r]).position = <<c, r>>

\* C24: on the board of every state reached from ChessBoard::new() or from a
\* successful from_forsyth_edwards by applied moves (Castle, EnPassant and
\* Promotion among them), and on every board from_forsyth_edwards returns,
\* each piece stored in grid cell (c, r) has (c, r) as its position.
C24_PieceKnowsItsCell ==
    /\ PositionsAgree(board)
    /\ (IsSome(parsed) /\ Result.ok) => PositionsAgree(Result.value)

\* a castle has moved king and rook, and the text of the board has been read
\* back into a board
C24_CastledAndReadBack ==
    /\ Played
    /\ Last(board.move_list).move_type = "Castle"
    /\ IsSome(parsed)
    /\ Result.ok
    /\ Result.value.squares = board.squares

\* ------------------------------------------------------------------ C25
\* the piece the standard setup has on a square, if any
StandardPiece(c, r) ==
    LET main == CASE c \in {0, 7} -> "Rook"
                  [] c \in {1, 6} -> "Knight"
                  [] c \in {2, 5} -> "Bishop"
                  [] c = 3 -> "Queen"
                  [] c = 4 -> "King"
    IN  CASE r = 0 -> Some(Piece(c, r, "White", main))
          [] r = 1 -> Some(Piece(c, r, "White", "Pawn"))
          [] r = 6 -> Some(Piece(c, r, "Black", "Pawn"))
          [] r = 7 -> Some(Piece(c, r, "Black", main))
          [] OTHER -> None

\* the board is the one ChessBoard::new() returned, no move applied
Fresh == start = 1 /\ board.move_list = <<>>

Forward(side) == IF side = "White" THEN 1 ELSE -1

\* the square n steps ahead of the pawn is on the board and empty
FreeAhead(b, pawn, n) ==
    LET row == pawn.position[2] + n * Forward(pawn.side)
    IN  OnBoard(pawn.position[1], row) /\ IsNone(b.squares[pawn.position[1]][row])

\* with the pawn two squares ahead, the king of its side is attacked
DoubleStepExposesKing(b, pawn) ==
    LET c == pawn.position[1]
        r == pawn.position[2]
        to == r + 2 * Forward(pawn.side)
        stepped == [b EXCEPT !.squares[c][r] = None,
                             !.squares[c][to] = Some(Piece(c, to, pawn.side, "Pawn"))]
    IN  IsChecked(stepped, pawn.side)

\* the moves get_moves returns for the piece; none when it does not return
MovesOf(b, piece) == IF GetMovesPanics(piece, b) THEN {} ELSE Range(GetMoves(piece, b))

\* a move of a pawn straight ahead
Push(m) == m.destination[1] = m.from_square[1]

\* C26: get_moves returns a DoubleAdvance for a pawn exactly when the pawn
\* stands on its home row (row 1 for White, row 6 for Black), the two squares
\* directly ahead of it are empty and the move does not expose its own king;
\* the DoubleAdvance goes two squares straight ahead; and a pawn whose square
\* directly ahead is occupied has no move straight ahead at all.
C26_DoubleAdvanceFromHomeRowOverEmptySquares ==
    \A pawn \in AllPawns(board) :
        /\ (\E m \in MovesOf(board, pawn) : m.move_type = "DoubleAdvance") <=>
              (/\ pawn.position[2] = (IF pawn.side = "White" THEN 1 ELSE 6)
               /\ FreeAhead(board, pawn, 1)
               /\ FreeAhead(board, pawn, 2)
               /\ ~DoubleStepExposesKing(board, pawn))
        /\ \A m \in MovesOf(board, pawn) :
              m.move_type = "DoubleAdvance" =>
                 m.destination = <<pawn.position[1], pawn.position[2] + 2 * Forward(pawn.side)>>
        /\ ~FreeAhead(board, pawn, 1) => \A m \in MovesOf(board, pawn) : ~Push(m)

\* a pawn of the side to move stands on its home row with both squares ahead
\* of it empty, and get_moves returns for it without the DoubleAdvance that
\* would leave its king attacked
C26_DoubleAdvanceHeldBackForKing ==
    /\ ~aborted
    /\ \E pawn \in AllPawns(board) :
          /\ pawn.side = Turn
          /\ pawn.position[2] = (IF pawn.side = "White" THEN 1 ELSE 6)
          /\ FreeAhead(board, pawn, 1)
          /\ FreeAhead(board, pawn, 2)
          /\ DoubleStepExposesKing(board, pawn)
          /\ ~GetMovesPanics(pawn, board)
          /\ \A m \in MovesOf(board, pawn) : m.move_type # "DoubleAdvance"

\* ------------------------------------------------------------------ C27
\* the directions a rook, a bishop and a queen slide in
Rays(piece_type) ==
    LET straight == {<<1, 0>>, <<-1, 0>>, <<0, 1>>, <<0, -1>>}
        diagonal == {<<1, 1>>, <<1, -1>>, <<-1, 1>>, <<-1, -1>>}
    IN  CASE piece_type = "Rook" -> straight
          [] piece_type = "Bishop" -> diagonal
          [] piece_type = "Queen" -> straight \cup diagonal

Sliders == {"Rook", "Bishop", "Queen"}

AllPieces(b) == Range(GetAllPieces(b, "White")) \cup Range(GetAllPieces(b, "Black"))

\* the squares a slider reaches: n steps along a ray, on the board, with every
\* square before it empty, and itself empty or held by the other side
SlidesTo(b, piece) ==
    {<<piece.position[1] + n * d[1], piece.position[2] + n * d[2]>> :
        n \in 1..7, d \in Rays(piece.piece_type)}
    \cap {sq \in (0..7) \X (0..7) :
            \E n \in 1..7, d \in Rays(piece.piece_type) :
               /\ sq = <<piece.position[1] + n * d[1], piece.position[2] + n * d[2]>>
               /\ \A k \in 1..(n - 1) :
                     IsNone(b.squares[piece.position[1] + k * d[1]][piece.position[2] + k * d[2]])
               /\ \/ IsNone(b.squares[sq[1]][sq[2]])
                  \/ Unwrap(b.squares[sq[1]][sq[2]]).side # piece.side}

\* the destinations the generator of the piece's kind returns, before the
\* legality filter; none when it does not return
Generated(b, piece) ==
    IF UnfilteredMovesPanics(piece, b) THEN {}
    ELSE {m.destination : m \in Range(UnfilteredMoves(piece, b))}

\* the sliders generate exactly the squares they slide to
SlidersStopAtBlockers(b) ==
    \A piece \in AllPieces(b) :
        piece.piece_type \in Sliders => Generated(b, piece) = SlidesTo(b, piece)

\* C27: for rook, bishop and queen the destinations generated along each ray
\* are exactly the empty squares from the piece outward up to the first
\* occupied square, and that square if it holds an enemy piece; and no
\* destination generated for a piece of any kind is off the board or on a
\* square held by the mover's own side.
C27_SlidersStopAndNoMoveOntoOwnPiece ==
    /\ SlidersStopAtBlockers(board)
    /\ \A piece \in AllPieces(board) :
          \A sq \in Generated(board, piece) :
             /\ OnBoard(sq[1], sq[2])
             /\ \/ IsNone(board.squares[sq[1]][sq[2]])
                \/ Unwrap(board.squares[sq[1]][sq[2]]).side # piece.side

\* ------------------------------------------------------------------ C28
\* the move takes a king: its destination or the square it names as captured
\* holds one
TakesKing(b, m) ==
    \/ \E king \in AllKings(b) : king.position = m.destination
    \/ IsSome(m.captures) /\ \E king \in AllKings(b) : king.position = Unwrap(m.captures)

\* C28: in every state reached by applying generated legal moves of the side
\* to move, each side has exactly one king on the board, no move generated
\* for the side to move takes a king, and is_checked finds the king it looks
\* for.
C28_OneKingEachAndNoneTaken ==
    /\ \A side \in Sides : Len(Kings(board, side)) = 1 /\ ~IsCheckedPanics(board, side)
    /\ \A piece \in Range(GetAllPieces(board, Turn)) :
          \A m \in MovesOf(board, piece) : ~TakesKing(board, m)

\* a capture has given check: the king of the side to move is attacked, and
\* that side has moves
C28_CheckedAfterCapture ==
    /\ Played
    /\ IsSome(Last(board.move_list).captures)
    /\ InCheck(board, Turn)
    /\ \E piece \in Range(GetAllPieces(board, Turn)) : MovesOf(board, piece) # {}

\* ------------------------------------------------------------------ C29
\* what perform_move unwraps for the move is there: the piece on the origin,
\* for a Castle the rook in the corner, for an EnPassant an enemy pawn on the
\* square behind the destination
Applies(b, m) ==
    /\ ~PerformMovePanics(b, m)
    /\ m.move_type = "EnPassant" =>
          LET mover == Unwrap(GetSquareByIndex(b, m.from_square[1], m.from_square[2]))
              taken == GetSquareByIndex(b, m.destination[1], m.from_square[2])
          IN  /\ IsSome(taken)
              /\ Unwrap(taken).piece_type = "Pawn"
              /\ Unwrap(taken).side # mover.side

\* C29: on every board reached from the standard setup get_all_moves
\* completes for either side, and every move it returns for the side to move
\* is applied by perform_move without the abort on an empty square.
C29_GenerationAndApplicationComplete ==
    /\ ~aborted
    /\ \A side \in Sides : ~GetAllMovesPanics(board, side)
    /\ \A m \in Range(GetAllMoves(board, Turn)) : Applies(board, m)

\* ------------------------------------------------------------------ C30
\* the moves get_moves returns for the piece, in the order returned
MoveList(b, piece) == IF GetMovesPanics(piece, b) THEN <<>> ELSE GetMoves(piece, b)

DestinationsDiffer(moves) ==
    \A i, j \in DOMAIN moves : i # j => moves[i].destination # moves[j].destination

\* C30: for every piece on every board reached from the standard setup, no
\* two of the moves get_moves returns for it have the same destination, so
\* the search of get_specific_move by destination finds one move only.
C30_OneMovePerDestination ==
    \A piece \in AllPieces(board) : DestinationsDiffer(MoveList(board, piece))

====
